---- MODULE Spec2Model ----
(***************************************************************************)
(* Model of the LRU session cache of src/src/ssl/ssl_lru.c and of the SSL  *)
(* engine declared in src/inc/bearssl_ssl.h.                               *)
(*                                                                         *)
(* The cache lives in a host-supplied byte slab cut into 100-byte entries. *)
(* "Addresses" are byte offsets into the slab; (uint32_t)-1 is the null     *)
(* address.  Entries are on a doubly-linked LRU list (prev/next) and in a  *)
(* binary search tree (left/right) keyed by the masked session ID.         *)
(*                                                                         *)
(* A masked session ID (32 bytes, compared with memcmp) is modelled as a   *)
(* natural number; memcmp's lexicographic order over big-endian bytes is   *)
(* the order of the numbers.                                               *)
(***************************************************************************)
EXTENDS Integers, Sequences, FiniteSets, TLC

(***************************************************************************)
(* Bounds of the model.                                                    *)
(***************************************************************************)
MaxEntries == 3      \* largest slab capacity explored, in entries
NumIds == 4          \* number of distinct session IDs the host may present
NumKeys == 2         \* number of values the DRBG may return as index key
NumFresh == 6        \* session IDs of a host that never saves an ID twice
MaxBody == 2         \* longest record body the engine's buffers hold
SeqBits == 2         \* width of a record sequence counter, in bits
MaxPairCalls == 5    \* calls a host makes on a pair of caches
MaxSlack == 250      \* slab lengths tried above each landmark length
MaxFree == 2         \* entries of a large slab that are still unused

(***************************************************************************)
(* Program constants (ssl_lru.c, lines 67-81).                             *)
(***************************************************************************)
LIST_PREV_OFF == 84
LIST_NEXT_OFF == 88
TREE_LEFT_OFF == 92
TREE_RIGHT_OFF == 96
LRU_ENTRY_LEN == 100
\* ((uint32_t)-1): the one 32-bit value that is no entry offset.  It is written
\* here as the integer -1; every other address is a small non-negative offset.
ADDR_NULL == -1

SessionIds == 0 .. (NumIds - 1)
Keys == 0 .. (NumKeys - 1)
Hashes == {"sha256", "sha1"}
FreshIds == 0 .. (NumFresh - 1)
IdSpace == 2 * NumIds

\* The contents (version, cipher suite, master secret) of the session with ID sid,
\* in its gen-th generation.  Sessions differ in their master secret, so that an
\* entry handed back for the wrong session is told apart.
DataFor(sid, gen) ==
    [version |-> 769 + ((sid + gen) % 3),
     cipher_suite |-> 47 + 6 * ((sid + gen) % 2),
     master_secret |-> 1 + sid + NumIds * gen]

\* What the caller's structure holds in these fields when it calls load.
CallerData ==
    { [version |-> 0, cipher_suite |-> 0, master_secret |-> 0] }

MkParams(sid, d) ==
    [session_id |-> sid, version |-> d.version,
     cipher_suite |-> d.cipher_suite, master_secret |-> d.master_secret]

DataOf(p) ==
    [version |-> p.version, cipher_suite |-> p.cipher_suite,
     master_secret |-> p.master_secret]

SaveInputs ==
    { MkParams(sid, DataFor(sid, 0)) : sid \in SessionIds } \cup
    { MkParams(sid, DataFor(sid, 1)) : sid \in {0} }
LoadInputs == { MkParams(sid, d) : sid \in SessionIds, d \in CallerData }

\* Slab lengths explored: no room for an entry (0, 99), and for each capacity
\* n either the exact length or a length with a partial entry left over.
StoreLens ==
    {0, LRU_ENTRY_LEN - 1} \cup
    { n * LRU_ENTRY_LEN + ((n + 1) % 2) * (LRU_ENTRY_LEN - 1) : n \in 1 .. MaxEntries }

VARIABLES
    cc,       \* the br_ssl_session_cache_lru structure
    store,    \* the slab: allocated entry offset -> entry contents
    last,     \* the last call made by the host: its kind and its outcome
    live,     \* history: entry offset -> parameters given to the save that filled it
    recency,  \* history: session IDs saved so far, most recently used first
    pc,       \* "idle", or "hang" when a call never returns
    script,   \* calls still to be made by a host that follows a fixed scenario
    eng,      \* the br_ssl_engine_context structure
    twin,     \* a second cache with another index key, given the same calls
    probe     \* a part of the program run on its own: its inputs and its outcome

vars == <<cc, store, last, live, recency, pc, script, eng, twin, probe>>

(***************************************************************************)
(* Slab access.                                                            *)
(***************************************************************************)
\* Contents of an entry right after its slot is taken from the slab and before
\* lru_save fills it: every field is overwritten before lru_save returns.
BlankEntry ==
    [id |-> -1, master_secret |-> -1, version |-> -1, cipher_suite |-> -1,
     prev |-> ADDR_NULL, next |-> ADDR_NULL, left |-> ADDR_NULL, right |-> ADDR_NULL]

get_prev(st, x) == st[x].prev
get_next(st, x) == st[x].next
get_left(st, x) == st[x].left
get_right(st, x) == st[x].right

set_prev(st, x, val) == [st EXCEPT ![x].prev = val]
set_next(st, x, val) == [st EXCEPT ![x].next = val]
set_left(st, x, val) == [st EXCEPT ![x].left = val]
set_right(st, x, val) == [st EXCEPT ![x].right = val]

\* br_enc32be(cc->store + addr, val) where addr is the address of a link field.
enc32_link(st, addr, val) ==
    LET off == addr % LRU_ENTRY_LEN
        x == addr - off
    IN  IF off = LIST_PREV_OFF THEN set_prev(st, x, val)
        ELSE IF off = LIST_NEXT_OFF THEN set_next(st, x, val)
        ELSE IF off = TREE_LEFT_OFF THEN set_left(st, x, val)
        ELSE set_right(st, x, val)

(***************************************************************************)
(* Session ID masking.                                                     *)
(***************************************************************************)
\* HMAC with hash function h and key k over message m: a keyed function of the
\* session ID.  Different (h, k) order the IDs differently, and some make two
\* session IDs collide.
HMAC(h, k, m) ==
    (((IF h = "sha256" THEN 1 ELSE 2) + 2 * k) * m + k + 1) % IdSpace

mask_id(c, src) == HMAC(c.hash, c.index_key, src)

memcmp(a, b) == IF a < b THEN -1 ELSE IF a = b THEN 0 ELSE 1

(***************************************************************************)
(* Tree walks.  A walk that visits more nodes than there are allocated     *)
(* entries has come back to a node it already left in the same direction,  *)
(* and so never ends: it is reported with hang = TRUE.                     *)
(***************************************************************************)
Fuel(st) == Cardinality(DOMAIN st)

RECURSIVE find_walk(_, _, _, _, _)
find_walk(st, id, x, y, fuel) ==
    IF x = ADDR_NULL THEN [node |-> ADDR_NULL, link |-> y, hang |-> FALSE]
    ELSE IF fuel = 0 THEN [node |-> ADDR_NULL, link |-> y, hang |-> TRUE]
    ELSE LET r == memcmp(id, st[x].id)
         IN  IF r < 0 THEN
                 find_walk(st, id, get_left(st, x), x + TREE_LEFT_OFF, fuel - 1)
             ELSE IF r = 0 THEN [node |-> x, link |-> y, hang |-> FALSE]
             ELSE find_walk(st, id, get_right(st, x), x + TREE_RIGHT_OFF, fuel - 1)

find_node(c, st, id) == find_walk(st, id, c.root, ADDR_NULL, Fuel(st))

RECURSIVE rightmost(_, _, _, _)
rightmost(st, y1, y2, fuel) ==
    LET z == get_right(st, y1)
    IN  IF z = ADDR_NULL THEN [node |-> y1, link |-> y2, hang |-> FALSE]
        ELSE IF fuel = 0 THEN [node |-> ADDR_NULL, link |-> ADDR_NULL, hang |-> TRUE]
        ELSE rightmost(st, z, y1 + TREE_RIGHT_OFF, fuel - 1)

RECURSIVE leftmost(_, _, _, _)
leftmost(st, y1, y2, fuel) ==
    LET z == get_left(st, y1)
    IN  IF z = ADDR_NULL THEN [node |-> y1, link |-> y2, hang |-> FALSE]
        ELSE IF fuel = 0 THEN [node |-> ADDR_NULL, link |-> ADDR_NULL, hang |-> TRUE]
        ELSE leftmost(st, z, y1 + TREE_LEFT_OFF, fuel - 1)

find_replacement_node(st, x) ==
    IF get_left(st, x) # ADDR_NULL THEN
        rightmost(st, get_left(st, x), x + TREE_LEFT_OFF, Fuel(st))
    ELSE IF get_right(st, x) # ADDR_NULL THEN
        leftmost(st, get_right(st, x), x + TREE_RIGHT_OFF, Fuel(st))
    ELSE [node |-> ADDR_NULL, link |-> ADDR_NULL, hang |-> FALSE]

\* The cache structure and the slab travel together through the helpers.
set_link(m, alx, x) ==
    IF alx = ADDR_NULL THEN [m EXCEPT !.c.root = x]
    ELSE [m EXCEPT !.s = enc32_link(m.s, alx, x)]

remove_node(m, x) ==
    LET f == find_node(m.c, m.s, m.s[x].id)
        r == find_replacement_node(m.s, x)
    IN  IF f.hang \/ r.hang THEN [m EXCEPT !.hang = TRUE]
        ELSE set_link(set_link(m, r.link, ADDR_NULL), f.link, r.node)

(***************************************************************************)
(* lru_save.  rng is what the server context's DRBG hands out on the first *)
(* save: the index key and the hash function the DRBG is built on.         *)
(***************************************************************************)
\* Variant: head is left pointing at the evicted entry when the list empties.
evict_tail_keeps_head(m) ==
    LET x  == m.c.tail
        t  == get_prev(m.s, x)
        m1 == IF t = ADDR_NULL
              THEN [m EXCEPT !.c.tail = t]
              ELSE [m EXCEPT !.c.tail = t, !.s = set_next(m.s, t, ADDR_NULL)]
    IN  IF x = ADDR_NULL THEN [m EXCEPT !.hang = TRUE] ELSE remove_node(m1, x)

\* Evict the list tail x: unlink it from the list, then from the tree.  With a null
\* tail the code would read outside the slab; such a call is counted with those
\* that do not return.
evict_tail(m) ==
    LET x  == m.c.tail
        t  == get_prev(m.s, x)
        m1 == IF t = ADDR_NULL
              THEN [m EXCEPT !.c.tail = t, !.c.head = ADDR_NULL]
              ELSE [m EXCEPT !.c.tail = t, !.s = set_next(m.s, t, ADDR_NULL)]
    IN  IF x = ADDR_NULL THEN [m EXCEPT !.hang = TRUE] ELSE remove_node(m1, x)

\* Variant: the fresh slot is handed out but store_ptr is not moved past it.
alloc_slot_no_advance(m) ==
    LET x == m.c.store_ptr
    IN  [m EXCEPT !.s = [a \in (DOMAIN m.s) \cup {x} |->
                            IF a \in DOMAIN m.s THEN m.s[a] ELSE BlankEntry]]

\* Take a fresh slot at store_ptr.
alloc_slot(m) ==
    LET x == m.c.store_ptr
    IN  [m EXCEPT !.c.store_ptr = m.c.store_ptr + LRU_ENTRY_LEN,
                  !.s = [a \in (DOMAIN m.s) \cup {x} |->
                            IF a \in DOMAIN m.s THEN m.s[a] ELSE BlankEntry]]

\* Variant: the first entry of an empty list is not recorded as its tail.
insert_entry_forgets_tail(m, x, id, params) ==
    LET f  == find_node(m.c, m.s, id)
        m2 == set_link(m, f.link, x)
        s3 == set_right(set_left(m2.s, x, ADDR_NULL), x, ADDR_NULL)
        s4 == IF m2.c.head = ADDR_NULL THEN s3 ELSE set_prev(s3, m2.c.head, x)
        s5 == set_next(set_prev(s4, x, ADDR_NULL), x, m2.c.head)
        c5 == [m2.c EXCEPT !.head = x]
        s6 == [s5 EXCEPT ![x].id = id,
                         ![x].master_secret = params.master_secret,
                         ![x].version = params.version,
                         ![x].cipher_suite = params.cipher_suite]
    IN  IF f.hang THEN [m EXCEPT !.hang = TRUE]
        ELSE [c |-> c5, s |-> s6, hang |-> FALSE]

\* Variant: the old head's prev link is not pointed at the new head.
insert_entry_one_way(m, x, id, params) ==
    LET f  == find_node(m.c, m.s, id)
        m2 == set_link(m, f.link, x)
        s3 == set_right(set_left(m2.s, x, ADDR_NULL), x, ADDR_NULL)
        c4 == IF m2.c.head = ADDR_NULL THEN [m2.c EXCEPT !.tail = x] ELSE m2.c
        s5 == set_next(set_prev(s3, x, ADDR_NULL), x, c4.head)
        c5 == [c4 EXCEPT !.head = x]
        s6 == [s5 EXCEPT ![x].id = id,
                         ![x].master_secret = params.master_secret,
                         ![x].version = params.version,
                         ![x].cipher_suite = params.cipher_suite]
    IN  IF f.hang THEN [m EXCEPT !.hang = TRUE]
        ELSE [c |-> c5, s |-> s6, hang |-> FALSE]

\* Link entry x into the tree and at the list head, then fill it.
insert_entry(m, x, id, params) ==
    LET f  == find_node(m.c, m.s, id)
        m2 == set_link(m, f.link, x)
        s3 == set_right(set_left(m2.s, x, ADDR_NULL), x, ADDR_NULL)
        c4 == IF m2.c.head = ADDR_NULL THEN [m2.c EXCEPT !.tail = x] ELSE m2.c
        s4 == IF m2.c.head = ADDR_NULL THEN s3 ELSE set_prev(s3, m2.c.head, x)
        s5 == set_next(set_prev(s4, x, ADDR_NULL), x, c4.head)
        c5 == [c4 EXCEPT !.head = x]
        s6 == [s5 EXCEPT ![x].id = id,
                         ![x].master_secret = params.master_secret,
                         ![x].version = params.version,
                         ![x].cipher_suite = params.cipher_suite]
    IN  IF f.hang THEN [m EXCEPT !.hang = TRUE]
        ELSE [c |-> c5, s |-> s6, hang |-> FALSE]

\* Variant: the size test is off by one and lets a 99-byte slab through.
too_small_off_by_one(c) == c.store_len + 1 < LRU_ENTRY_LEN

\* The slab cannot hold one entry.
too_small(c) == c.store_len < LRU_ENTRY_LEN

\* Variant: the init_done test is missing and every save draws a new key.
init_key_redraws(c, rng) ==
    [c EXCEPT !.index_key = rng.key, !.hash = rng.hash, !.init_done = 1]

\* On the first save, draw the index key and remember the DRBG's hash function.
init_key(c, rng) ==
    IF c.init_done = 0
    THEN [c EXCEPT !.index_key = rng.key, !.hash = rng.hash, !.init_done = 1]
    ELSE c

\* Variant: the test forgets the length of the entry to be added.
no_room_ignores_entry_len(c) == c.store_ptr > c.store_len

\* No fresh slot is left: the next save evicts.
no_room(c) == c.store_ptr > c.store_len - LRU_ENTRY_LEN

lru_save(c, st, rng, params) ==
    IF too_small(c) THEN
        [c |-> c, s |-> st, hang |-> FALSE, path |-> "too_small", x |-> ADDR_NULL]
    ELSE
        LET c1 == init_key(c, rng)
            id == mask_id(c1, params.session_id)
            f0 == find_node(c1, st, id)
            m0 == [c |-> c1, s |-> st, hang |-> FALSE]
            evict == no_room(c1)
            x  == IF evict THEN c1.tail ELSE c1.store_ptr
            m1 == IF evict THEN evict_tail(m0) ELSE alloc_slot(m0)
            m2 == IF m1.hang THEN m1 ELSE insert_entry(m1, x, id, params)
        IN  IF f0.hang THEN
                [c |-> c1, s |-> st, hang |-> TRUE, path |-> "hang", x |-> ADDR_NULL]
            ELSE IF f0.node # ADDR_NULL THEN
                [c |-> c1, s |-> st, hang |-> FALSE, path |-> "duplicate",
                 x |-> ADDR_NULL]
            ELSE IF m2.hang THEN
                [c |-> c1, s |-> st, hang |-> TRUE, path |-> "hang", x |-> ADDR_NULL]
            ELSE
                [c |-> m2.c, s |-> m2.s, hang |-> FALSE,
                 path |-> IF evict THEN "evict" ELSE "alloc", x |-> x]

(***************************************************************************)
(* lru_load.                                                               *)
(***************************************************************************)
\* Variant: the tail pointer is not moved when the found entry was the tail.
move_to_head_keeps_tail(c, st, x) ==
    LET p  == get_prev(st, x)
        n  == get_next(st, x)
        s1 == set_next(st, p, n)
        s2 == IF n = ADDR_NULL THEN s1 ELSE set_prev(s1, n, p)
        s3 == set_prev(s2, c.head, x)
        s4 == set_next(s3, x, c.head)
        s5 == set_prev(s4, x, ADDR_NULL)
    IN  [c |-> [c EXCEPT !.head = x], s |-> s5]

\* Variant: the moved entry also takes the old head as its left child.
move_to_head_relinks_tree(c, st, x) ==
    LET p  == get_prev(st, x)
        n  == get_next(st, x)
        s1 == set_next(st, p, n)
        c2 == IF n = ADDR_NULL THEN [c EXCEPT !.tail = p] ELSE c
        s2 == IF n = ADDR_NULL THEN s1 ELSE set_prev(s1, n, p)
        s3 == set_prev(s2, c2.head, x)
        s4 == set_next(s3, x, c2.head)
        s5 == set_left(set_prev(s4, x, ADDR_NULL), x, c2.head)
    IN  [c |-> [c2 EXCEPT !.head = x], s |-> s5]

\* Move the found entry x, which is not the head, to the list head.
move_to_head(c, st, x) ==
    LET p  == get_prev(st, x)
        n  == get_next(st, x)
        s1 == set_next(st, p, n)
        c2 == IF n = ADDR_NULL THEN [c EXCEPT !.tail = p] ELSE c
        s2 == IF n = ADDR_NULL THEN s1 ELSE set_prev(s1, n, p)
        s3 == set_prev(s2, c2.head, x)
        s4 == set_next(s3, x, c2.head)
        s5 == set_prev(s4, x, ADDR_NULL)
    IN  [c |-> [c2 EXCEPT !.head = x], s |-> s5]

lru_load(c, st, params) ==
    IF c.init_done = 0 THEN
        [c |-> c, s |-> st, hang |-> FALSE, ret |-> 0, params |-> params,
         x |-> ADDR_NULL]
    ELSE
        LET id == mask_id(c, params.session_id)
            f  == find_node(c, st, id)
            x  == f.node
            out == [params EXCEPT !.version = st[x].version,
                                  !.cipher_suite = st[x].cipher_suite,
                                  !.master_secret = st[x].master_secret]
            mv == IF x # c.head THEN move_to_head(c, st, x) ELSE [c |-> c, s |-> st]
        IN  IF f.hang THEN
                [c |-> c, s |-> st, hang |-> TRUE, ret |-> 0, params |-> params,
                 x |-> ADDR_NULL]
            ELSE IF x # ADDR_NULL THEN
                [c |-> mv.c, s |-> mv.s, hang |-> FALSE, ret |-> 1, params |-> out,
                 x |-> x]
            ELSE
                [c |-> c, s |-> st, hang |-> FALSE, ret |-> 0, params |-> params,
                 x |-> ADDR_NULL]

(***************************************************************************)
(* br_ssl_session_cache_lru_init: the state after construction.  The index *)
(* key and the hash pointer are not set by init: they hold whatever the    *)
(* caller's memory held.                                                   *)
(***************************************************************************)
br_ssl_session_cache_lru_init(len, key, hash) ==
    [store_len |-> len, store_ptr |-> 0, index_key |-> key, hash |-> hash,
     init_done |-> 0, head |-> ADDR_NULL, tail |-> ADDR_NULL, root |-> ADDR_NULL]

NoCall == [op |-> "init", path |-> "init"]

\* The cache is used without an engine.
NoEngine == <<>>

\* There is no second cache.
NoTwin == <<>>

\* Nothing is run on its own.
NoProbe == <<>>

Init ==
    /\ \E len \in StoreLens, key \in Keys, hash \in Hashes :
           cc = br_ssl_session_cache_lru_init(len, key, hash)
    /\ store = [a \in {} |-> BlankEntry]
    /\ last = NoCall
    /\ live = [a \in {} |-> MkParams(0, CHOOSE d \in CallerData : TRUE)]
    /\ recency = <<>>
    /\ pc = "idle"
    /\ script = <<>>
    /\ eng = NoEngine
    /\ twin = NoTwin
    /\ probe = NoProbe

(***************************************************************************)
(* History variables.                                                      *)
(***************************************************************************)
Void == <<-1>>

SeqWithout(s, v) == SelectSeq(s, LAMBDA e : e # v)

Range(s) == { s[i] : i \in DOMAIN s }

\* Recency after a save call that took path `path` for session sid under cache c
\* (c already holds the index key).  The order is kept only while every save is of
\* a session whose masked ID differs from that of every session saved before.
RecencyAfterSave(c, sid, path) ==
    IF path = "too_small" THEN recency
    ELSE IF recency = Void THEN Void
    ELSE IF \E s \in Range(recency) : mask_id(c, s) = mask_id(c, sid) THEN Void
    ELSE <<sid>> \o recency

RecencyAfterHit(sid) ==
    IF recency = Void THEN Void
    ELSE IF sid \in Range(recency) THEN <<sid>> \o SeqWithout(recency, sid)
    ELSE Void

(***************************************************************************)
(* The host's calls.                                                       *)
(***************************************************************************)
LruSave(params, rng) ==
    /\ pc = "idle"
    /\ UNCHANGED <<eng, twin, probe>>
    /\ LET r == lru_save(cc, store, rng, params)
       IN  IF r.hang THEN
               /\ pc' = "hang"
               /\ last' = [op |-> "save", path |-> "hang"]
               /\ UNCHANGED <<cc, store, live, recency>>
           ELSE
               /\ cc' = r.c
               /\ store' = r.s
               /\ last' = [op |-> "save", path |-> r.path]
               /\ live' = IF r.path \in {"alloc", "evict"}
                          THEN [a \in (DOMAIN live) \cup {r.x} |->
                                   IF a = r.x THEN params ELSE live[a]]
                          ELSE live
               /\ recency' = RecencyAfterSave(r.c, params.session_id, r.path)
               /\ pc' = "idle"

LruLoad(params) ==
    /\ pc = "idle"
    /\ UNCHANGED <<eng, twin, probe>>
    /\ LET r == lru_load(cc, store, params)
       IN  IF r.hang THEN
               /\ pc' = "hang"
               /\ last' = [op |-> "load", path |-> "hang"]
               /\ UNCHANGED <<cc, store, live, recency>>
           ELSE
               /\ cc' = r.c
               /\ store' = r.s
               /\ last' = [op |-> "load", path |-> IF r.ret = 1 THEN "hit" ELSE "miss"]
               /\ live' = live
               /\ recency' = IF r.ret = 1
                             THEN RecencyAfterHit(live[r.x].session_id)
                             ELSE recency
               /\ pc' = "idle"

Rngs == [key : Keys, hash : Hashes]

\* The DRBG is asked for bytes only by the first save that passes the size test.
DrbgOutputs ==
    IF cc.init_done = 0 /\ cc.store_len >= LRU_ENTRY_LEN THEN Rngs
    ELSE { [key |-> cc.index_key, hash |-> cc.hash] }

Save == \E params \in SaveInputs, rng \in DrbgOutputs : LruSave(params, rng)

Load == \E params \in LoadInputs : LruLoad(params)

Next == (Save \/ Load) /\ UNCHANGED script

Spec == Init /\ [][Next]_vars

(***************************************************************************)
(* A host that follows the eviction-order scenario on a slab of exactly    *)
(* three entries: save A, save B, save C, load B, save D, then load A, C,  *)
(* B, D.  A, B, C, D are any four distinct session IDs.                    *)
(***************************************************************************)
SaveCall(sid) == [op |-> "save", params |-> MkParams(sid, DataFor(sid, 0))]
LoadCall(sid) ==
    [op |-> "load", params |-> MkParams(sid, CHOOSE d \in CallerData : TRUE)]

ScenarioCalls(a, b, c, d) ==
    << SaveCall(a), SaveCall(b), SaveCall(c), LoadCall(b), SaveCall(d),
       LoadCall(a), LoadCall(c), LoadCall(b), LoadCall(d) >>

InitScenario ==
    /\ \E key \in Keys, hash \in Hashes :
           cc = br_ssl_session_cache_lru_init(3 * LRU_ENTRY_LEN, key, hash)
    /\ store = [a \in {} |-> BlankEntry]
    /\ last = NoCall
    /\ live = [a \in {} |-> MkParams(0, CHOOSE d \in CallerData : TRUE)]
    /\ recency = <<>>
    /\ pc = "idle"
    /\ eng = NoEngine
    /\ twin = NoTwin
    /\ probe = NoProbe
    /\ \E a, b, c, d \in SessionIds :
           /\ Cardinality({a, b, c, d}) = 4
           /\ script = ScenarioCalls(a, b, c, d)

ScenarioSave ==
    /\ script # <<>>
    /\ Head(script).op = "save"
    /\ \E rng \in DrbgOutputs : LruSave(Head(script).params, rng)
    /\ script' = Tail(script)

ScenarioLoad ==
    /\ script # <<>>
    /\ Head(script).op = "load"
    /\ LruLoad(Head(script).params)
    /\ script' = Tail(script)

SpecScenario == InitScenario /\ [][ScenarioSave \/ ScenarioLoad]_vars

(***************************************************************************)
(* A host that saves every session once: each save is of a session ID that *)
(* was never saved before and whose masked ID differs from all earlier     *)
(* ones; loads are free.  The slab holds three entries.                    *)
(***************************************************************************)
InitFresh ==
    /\ \E key \in Keys, hash \in Hashes :
           cc = br_ssl_session_cache_lru_init(3 * LRU_ENTRY_LEN, key, hash)
    /\ store = [a \in {} |-> BlankEntry]
    /\ last = NoCall
    /\ live = [a \in {} |-> MkParams(0, CHOOSE d \in CallerData : TRUE)]
    /\ recency = <<>>
    /\ pc = "idle"
    /\ script = <<>>
    /\ eng = NoEngine
    /\ twin = NoTwin
    /\ probe = NoProbe

SaveFresh ==
    /\ \E sid \in FreshIds \ Range(recency), rng \in DrbgOutputs :
           LruSave(MkParams(sid, DataFor(sid, 0)), rng)
    /\ recency' # Void
    /\ UNCHANGED script

LoadFresh ==
    /\ \E sid \in FreshIds, d \in CallerData : LruLoad(MkParams(sid, d))
    /\ UNCHANGED script

SpecFresh == InitFresh /\ [][SaveFresh \/ LoadFresh]_vars

(***************************************************************************)
(* A host that only saves, each session once, into a slab of six entries.  *)
(***************************************************************************)

InitDeep ==
    /\ \E key \in Keys, hash \in Hashes :
           cc = br_ssl_session_cache_lru_init(6 * LRU_ENTRY_LEN, key, hash)
    /\ store = [a \in {} |-> BlankEntry]
    /\ last = NoCall
    /\ live = [a \in {} |-> MkParams(0, CHOOSE d \in CallerData : TRUE)]
    /\ recency = <<>>
    /\ pc = "idle"
    /\ script = <<>>
    /\ eng = NoEngine
    /\ twin = NoTwin
    /\ probe = NoProbe

SpecDeep == InitDeep /\ [][SaveFresh]_vars

(***************************************************************************)
(* Two caches of the same capacity whose DRBGs hand out different index    *)
(* keys, none of which makes two session IDs collide.  The host makes the  *)
(* same calls on both.                                                     *)
(***************************************************************************)
CollisionFree(rng) ==
    \A s, t \in SessionIds :
        s # t => HMAC(rng.hash, rng.key, s) # HMAC(rng.hash, rng.key, t)

\* The calls the host makes on both caches, in order; each session is saved
\* with one set of parameters.
PairCalls ==
    { [op |-> "save", params |-> MkParams(sid, DataFor(sid, 0))] :
          sid \in SessionIds } \cup
    { [op |-> "load", params |-> p] : p \in LoadInputs }

\* What a cache's DRBG returns on its first storing save: the key and hash the
\* cache was drawn with.
KeyOf(c) == [key |-> c.index_key, hash |-> c.hash]

\* Both caches get the largest slab explored.  The two caches are
\* interchangeable: each pair of keys is taken once.
InitPair ==
    /\ \E r1, r2 \in Rngs :
           LET len == MaxEntries * LRU_ENTRY_LEN
               rank(rng) == 2 * rng.key + (IF rng.hash = "sha1" THEN 1 ELSE 0)
           IN
           /\ CollisionFree(r1) /\ CollisionFree(r2)
           /\ rank(r1) < rank(r2)
           /\ cc = br_ssl_session_cache_lru_init(len, r1.key, r1.hash)
           /\ twin = [c |-> br_ssl_session_cache_lru_init(len, r2.key, r2.hash),
                      s |-> [a \in {} |-> BlankEntry]]
    /\ store = [a \in {} |-> BlankEntry]
    /\ last = NoCall
    /\ live = [a \in {} |-> MkParams(0, CHOOSE d \in CallerData : TRUE)]
    /\ recency = <<>>
    /\ pc = "idle"
    /\ script \in [1 .. MaxPairCalls -> PairCalls]
    /\ eng = NoEngine
    /\ probe = NoProbe

PairSave ==
    /\ pc = "idle"
    /\ script # <<>>
    /\ Head(script).op = "save"
    /\ LET params == Head(script).params
           r1 == lru_save(cc, store, KeyOf(cc), params)
               r2 == lru_save(twin.c, twin.s, KeyOf(twin.c), params)
           IN  IF r1.hang \/ r2.hang THEN
                   /\ pc' = "hang"
                   /\ last' = [op |-> "save", path |-> "hang"]
                   /\ UNCHANGED <<cc, store, twin>>
               ELSE
                   /\ cc' = r1.c
                   /\ store' = r1.s
                   /\ twin' = [c |-> r2.c, s |-> r2.s]
                   /\ last' = [op |-> "save", path |-> r1.path]
                   /\ pc' = "idle"
    /\ script' = Tail(script)
    /\ UNCHANGED <<live, recency, eng, probe>>

PairLoad ==
    /\ pc = "idle"
    /\ script # <<>>
    /\ Head(script).op = "load"
    /\ LET params == Head(script).params
           r1 == lru_load(cc, store, params)
               r2 == lru_load(twin.c, twin.s, params)
           IN  IF r1.hang \/ r2.hang THEN
                   /\ pc' = "hang"
                   /\ last' = [op |-> "load", path |-> "hang"]
                   /\ UNCHANGED <<cc, store, twin>>
               ELSE
                   /\ cc' = r1.c
                   /\ store' = r1.s
                   /\ twin' = [c |-> r2.c, s |-> r2.s]
                   /\ last' = [op |-> "load",
                               path |-> IF r1.ret = 1 THEN "hit" ELSE "miss"]
                   /\ pc' = "idle"
    /\ script' = Tail(script)
    /\ UNCHANGED <<live, recency, eng, probe>>

SpecPair == InitPair /\ [][PairSave \/ PairLoad]_vars

(***************************************************************************)
(* Addresses at their full width.  A 32-bit value is written as the pair   *)
(* <<hi, lo>> of its two 16-bit halves, and sums are taken modulo 2^32, so *)
(* that a slab of up to 4294967295 bytes and an address that wraps around  *)
(* are both represented.  The run keeps store_len, store_ptr and the       *)
(* offset x of the entry handed out last.                                  *)
(***************************************************************************)
\* a + n modulo 2^32, for -65536 <= n <= 65535.
u32_add(a, n) ==
    LET lo == a[2] + n
        hi == a[1] + (lo \div 65536)
    IN  <<hi % 65536, lo % 65536>>

u32_le(a, b) == a[1] < b[1] \/ (a[1] = b[1] /\ a[2] <= b[2])

\* Variant: the test forgets the length of the entry to be added.
no_room32_ignores_entry_len(p) == ~u32_le(p.store_ptr, p.store_len)

\* cc->store_ptr > (cc->store_len - LRU_ENTRY_LEN)
no_room32(p) == ~u32_le(p.store_ptr, u32_add(p.store_len, -LRU_ENTRY_LEN))

\* The slab length lies within MaxSlack bytes above 0, 2^16 - 100, 2^31 - 100
\* or 2^32 - 1 - MaxSlack; up to MaxFree of the entries it has room for are
\* still unused, all others were handed out by earlier saves.
InitWide ==
    /\ \E base \in {<<0, 0>>, <<0, 65436>>, <<32767, 65436>>,
                    u32_add(<<65535, 65535>>, -MaxSlack)} :
       \E d \in 0 .. MaxSlack : \E j \in 0 .. MaxFree :
           LET len == u32_add(base, d)
               r   == ((len[1] % 100) * 36 + (len[2] % 100)) % 100
               top == u32_add(len, -r)
               ptr == u32_add(top, -(j * LRU_ENTRY_LEN))
           IN  /\ u32_le(ptr, top)
               /\ probe = [store_len |-> len, store_ptr |-> ptr,
                           x |-> <<65535, 65535>>]
    /\ cc = br_ssl_session_cache_lru_init(0, 0, "sha256")
    /\ store = [a \in {} |-> BlankEntry]
    /\ last = NoCall
    /\ live = [a \in {} |-> MkParams(0, CHOOSE d \in CallerData : TRUE)]
    /\ recency = <<>>
    /\ pc = "idle"
    /\ script = <<>>
    /\ eng = NoEngine
    /\ twin = NoTwin

\* A save that passes the size test and finds room: x = cc->store_ptr;
\* cc->store_ptr += LRU_ENTRY_LEN.
WideSave ==
    /\ u32_le(<<0, LRU_ENTRY_LEN>>, probe.store_len)
    /\ ~no_room32(probe)
    /\ probe' = [probe EXCEPT !.x = probe.store_ptr,
                              !.store_ptr = u32_add(probe.store_ptr, LRU_ENTRY_LEN)]
    /\ UNCHANGED <<cc, store, last, live, recency, pc, script, eng, twin>>

SpecWide == InitWide /\ [][WideSave]_vars

(***************************************************************************)
(* The SSL engine: record layer, four-stream scheduler, closure.           *)
(*                                                                         *)
(* bearssl_ssl.h declares the engine context and its entry points; their   *)
(* bodies are not part of the files at hand, so this part follows the      *)
(* specification (sections 3, 4.1, 4.2 and 7) and the header's comments.   *)
(* The engine runs in full-duplex mode on two separate buffers.  In each   *)
(* buffer the cursors xa <= xb <= xc delimit consumed, pending and free    *)
(* bytes:                                                                  *)
(*   input   [0, ixb) record bytes received so far, [ixb, ixc) bytes still *)
(*           expected; once an application record is decrypted, [ixa, ixb) *)
(*           is the plaintext the host has not read yet;                   *)
(*   output  [0, oxb) the record under construction (5-byte header space   *)
(*           then plaintext), [oxb, oxc) room for more plaintext; once the *)
(*           record is sealed, [oxa, oxb) are the record bytes the host    *)
(*           has not sent yet.                                             *)
(* The bytes of an incoming record are the peer's choice; the model draws  *)
(* the header fields when the fifth header byte arrives and the body       *)
(* contents when the last body byte arrives.  The handshake processor is   *)
(* an external collaborator: it is a set of steps that may install codecs, *)
(* emit handshake and ChangeCipherSpec records, finish or fail.            *)
(***************************************************************************)
BR_ERR_OK == 0
BR_ERR_UNSUPPORTED_VERSION == 3
BR_ERR_BAD_VERSION == 4
BR_ERR_BAD_LENGTH == 5
BR_ERR_TOO_LARGE == 6
BR_ERR_BAD_MAC == 7
BR_ERR_UNKNOWN_TYPE == 9
BR_ERR_UNEXPECTED == 10
BR_ERR_BAD_CCS == 12
BR_ERR_BAD_ALERT == 13
BR_ERR_BAD_HANDSHAKE == 14
BR_ERR_IO == 31
BR_ERR_RECV_FATAL_ALERT == 256
BR_ERR_SEND_FATAL_ALERT == 512

BR_SSL_CLOSED == 1
BR_SSL_SENDREC == 2
BR_SSL_RECVREC == 4
BR_SSL_SENDAPP == 8
BR_SSL_RECVAPP == 16

BR_OPT_ENFORCE_SERVER_PREFERENCES == 1
BR_OPT_NO_RENEGOTIATION == 2

BR_SSL30 == 768
BR_TLS10 == 769
BR_TLS11 == 770
BR_TLS12 == 771

\* Record types on the wire.
TYPE_CCS == 20
TYPE_ALERT == 21
TYPE_HANDSHAKE == 22
TYPE_APPDATA == 23
TYPE_OTHER == 24

RecHeaderLen == 5
IBufLen == RecHeaderLen + MaxBody
OBufLen == RecHeaderLen + MaxBody

\* The sequence counter has SeqBits bits (64 in the program).
SeqLimit == 2 ^ SeqBits

RecTypes == {TYPE_CCS, TYPE_ALERT, TYPE_HANDSHAKE, TYPE_APPDATA}
Versions == {BR_TLS11, BR_TLS12}

\* What the peer may put in a record header: any type, a supported version or
\* SSL 3.0, which the header marks unsupported, and a body of up to one byte
\* more than the engine accepts.
Headers == [type : RecTypes \cup {TYPE_OTHER}, version : Versions \cup {BR_SSL30},
            len : 0 .. (MaxBody + 1)]

\* What the peer may put in a record body: whether the MAC or tag verifies, and
\* the first two plaintext bytes (alert level and code, or the CCS byte).
Bodies == [mac_ok : BOOLEAN, b0 : {1, 2}, b1 : {0, 10}]

\* A window handed out by a _buf call; NoWindow stands for (NULL, 0).
NoWindow == [ptr |-> -1, len |-> 0]

ClearCodec == [kind |-> "clear", seq |-> 0]

NewCodec(kind) == [kind |-> kind, seq |-> 0]

\* The engine context after br_ssl_client_reset / br_ssl_server_reset.
engine_reset ==
    [err |-> BR_ERR_OK,
     ixa |-> 0, ixb |-> 0, ixc |-> RecHeaderLen,
     oxa |-> 0, oxb |-> RecHeaderLen, oxc |-> OBufLen,
     in_plain |-> FALSE, out_sealed |-> FALSE,
     shutdown_recv |-> 0,
     record_type_in |-> 0, record_type_out |-> 0,
     version_in |-> 0,
     in |-> ClearCodec, out |-> ClearCodec,
     pend_in |-> "none", pend_out |-> "none",
     application_data |-> 0,
     closing |-> "open",
     hist_in |-> <<>>, hist_out |-> <<>>,
     flags |-> <<0, 0>>]

\* Variant: a later fault replaces the latched code.
br_ssl_engine_fail_overwrites(e, code) == [e EXCEPT !.err = code]

\* One-shot latching: the first non-zero error stays.
br_ssl_engine_fail(e, code) ==
    IF e.err # BR_ERR_OK THEN e ELSE [e EXCEPT !.err = code]

br_ssl_engine_last_error(e) == e.err

\* Both directions are closed.
engine_closed(e) == e.closing = "sent" /\ e.shutdown_recv # 0

(***************************************************************************)
(* Record codecs.  The clear codec keeps no sequence number; the CBC and   *)
(* GCM contexts hold one, which counts the records processed.             *)
(***************************************************************************)
\* Variant: the counter wraps around instead of failing.
codec_step_wraps(c) ==
    IF c.kind = "clear" THEN [codec |-> c, ok |-> TRUE]
    ELSE [codec |-> [c EXCEPT !.seq = (c.seq + 1) % SeqLimit], ok |-> TRUE]

\* The codec processes one record: the record carries c.seq and the counter
\* moves on; a record whose processing would overflow the counter fails.
codec_step(c) ==
    IF c.kind = "clear" THEN [codec |-> c, ok |-> TRUE]
    ELSE IF c.seq + 1 >= SeqLimit THEN [codec |-> c, ok |-> FALSE]
    ELSE [codec |-> [c EXCEPT !.seq = c.seq + 1], ok |-> TRUE]

\* Sequence numbers carried so far by the records of codec c, one more added.
carried(hist, c) == IF c.kind = "clear" THEN hist ELSE Append(hist, c.seq)

check_length(c, len) == len <= MaxBody

(***************************************************************************)
(* Output side.                                                            *)
(***************************************************************************)
\* Seal the record under construction: the outbound codec encrypts it and it
\* becomes the pending outbound record.
seal(e, type) ==
    LET step == codec_step(e.out)
    IN  IF ~step.ok THEN br_ssl_engine_fail(e, BR_ERR_TOO_LARGE)
        ELSE [e EXCEPT !.out = step.codec,
                       !.hist_out = carried(e.hist_out, e.out),
                       !.out_sealed = TRUE,
                       !.record_type_out = type]

recycle_out(e) ==
    [e EXCEPT !.oxa = 0, !.oxb = RecHeaderLen, !.oxc = OBufLen,
              !.out_sealed = FALSE, !.record_type_out = 0]

\* Build the close_notify record: header and the two bytes (1, 0).
emit_close_notify(e) ==
    seal([e EXCEPT !.oxb = RecHeaderLen + 2, !.closing = "sending"], TYPE_ALERT)

\* Start the closure: pending plaintext goes out first, then the close_notify.
do_close(e) ==
    IF e.closing # "open" THEN e
    ELSE IF e.out_sealed THEN [e EXCEPT !.closing = "scheduled"]
    ELSE IF e.oxb > RecHeaderLen
    THEN seal([e EXCEPT !.closing = "scheduled"], TYPE_APPDATA)
    ELSE emit_close_notify(e)

\* Variant: the drained close_notify is not recorded as sent.
after_drain_forgets_close(e) ==
    IF e.closing = "scheduled" THEN emit_close_notify(e) ELSE e

\* The output buffer is free again after a record was drained.
after_drain(e) ==
    IF e.closing = "sending" THEN [e EXCEPT !.closing = "sent"]
    ELSE IF e.closing = "scheduled" THEN emit_close_notify(e)
    ELSE e

\* Variant: the test on the pending outbound record is missing.
br_ssl_engine_sendapp_buf_while_sealed(e) ==
    IF e.err # BR_ERR_OK \/ e.application_data # 1
       \/ e.closing # "open" \/ e.oxb >= e.oxc
    THEN NoWindow
    ELSE [ptr |-> e.oxb, len |-> e.oxc - e.oxb]

br_ssl_engine_sendapp_buf(e) ==
    IF e.err # BR_ERR_OK \/ e.out_sealed \/ e.application_data # 1
       \/ e.closing # "open" \/ e.oxb >= e.oxc
    THEN NoWindow
    ELSE [ptr |-> e.oxb, len |-> e.oxc - e.oxb]

br_ssl_engine_sendapp_ack(e, len) ==
    LET e1 == [e EXCEPT !.oxb = e.oxb + len]
    IN  IF e1.oxb = e1.oxc THEN seal(e1, TYPE_APPDATA) ELSE e1

br_ssl_engine_sendrec_buf(e) ==
    IF e.err # BR_ERR_OK \/ ~e.out_sealed THEN NoWindow
    ELSE [ptr |-> e.oxa, len |-> e.oxb - e.oxa]

br_ssl_engine_sendrec_ack(e, len) ==
    LET e1 == [e EXCEPT !.oxa = e.oxa + len]
    IN  IF e1.oxa < e1.oxb THEN e1 ELSE after_drain(recycle_out(e1))

br_ssl_engine_flush(e, force) ==
    IF e.err # BR_ERR_OK \/ e.out_sealed \/ e.application_data # 1
       \/ e.closing # "open"
    THEN e
    ELSE IF e.oxb > RecHeaderLen \/ force # 0 THEN seal(e, TYPE_APPDATA)
    ELSE e

br_ssl_engine_close(e) ==
    IF e.err # BR_ERR_OK \/ e.application_data # 1 \/ engine_closed(e) THEN e
    ELSE do_close(e)

(***************************************************************************)
(* Input side.                                                             *)
(***************************************************************************)
recycle_in(e) ==
    [e EXCEPT !.ixa = 0, !.ixb = 0, !.ixc = RecHeaderLen, !.in_plain = FALSE,
              !.record_type_in = 0]

\* Variant: the new inbound codec goes on from the old sequence number.
switch_in_keeps_seq(e) ==
    [e EXCEPT !.in = [kind |-> e.pend_in, seq |-> e.in.seq],
              !.pend_in = "none"]

\* The pending inbound codec becomes the active one; it starts at zero.
switch_in(e) ==
    [e EXCEPT !.in = NewCodec(e.pend_in), !.pend_in = "none", !.hist_in = <<>>]

\* Dispatch a decrypted record of `len` plaintext bytes by its type.
dispatch_record(e, len, body) ==
    IF e.record_type_in = TYPE_CCS THEN
        IF len # 1 \/ body.b0 # 1 THEN br_ssl_engine_fail(e, BR_ERR_BAD_CCS)
        ELSE IF e.pend_in = "none" THEN br_ssl_engine_fail(e, BR_ERR_UNEXPECTED)
        ELSE recycle_in(switch_in(e))
    ELSE IF e.record_type_in = TYPE_ALERT THEN
        IF len = 0 \/ len % 2 # 0 THEN br_ssl_engine_fail(e, BR_ERR_BAD_ALERT)
        ELSE IF body.b0 = 2 \/ body.b1 = 0 THEN
            IF body.b1 # 0
            THEN br_ssl_engine_fail(e, BR_ERR_RECV_FATAL_ALERT + body.b1)
            ELSE recycle_in(do_close([e EXCEPT !.shutdown_recv = 1]))
        ELSE recycle_in(e)
    ELSE IF e.record_type_in = TYPE_HANDSHAKE THEN recycle_in(e)
    ELSE
        IF e.application_data # 1 THEN br_ssl_engine_fail(e, BR_ERR_UNEXPECTED)
        ELSE IF len = 0 THEN recycle_in(e)
        ELSE [e EXCEPT !.ixa = RecHeaderLen, !.in_plain = TRUE]

\* A complete record is in the buffer: decrypt it, then dispatch it.
process_record(e, body) ==
    LET len  == e.ixc - RecHeaderLen
        step == codec_step(e.in)
    IN  IF ~step.ok THEN br_ssl_engine_fail(e, BR_ERR_TOO_LARGE)
        ELSE IF e.in.kind # "clear" /\ ~body.mac_ok
        THEN br_ssl_engine_fail(e, BR_ERR_BAD_MAC)
        ELSE dispatch_record([e EXCEPT !.in = step.codec,
                                       !.hist_in = carried(e.hist_in, e.in)],
                             len, body)

\* Variant: the end of the body is computed without the header length.
body_end_without_header(h) == h.len

\* Where the body of a record with header h ends in the input buffer.
body_end(h) == RecHeaderLen + h.len

\* A complete header is in the buffer.  The validations are made in the order
\* in which section 4.2 lists them: the type, then the version (it must match
\* version_in if set, else it is adopted), then the length.  A version that
\* cannot be adopted because it is not supported (BR_ERR_UNSUPPORTED_VERSION
\* in the header) fails the engine.
process_header(e, h, body) ==
    LET e1 == [e EXCEPT !.version_in = h.version, !.record_type_in = h.type]
    IN  IF h.type \notin RecTypes THEN br_ssl_engine_fail(e, BR_ERR_UNKNOWN_TYPE)
        ELSE IF e.version_in # 0 /\ h.version # e.version_in
        THEN br_ssl_engine_fail(e, BR_ERR_BAD_VERSION)
        ELSE IF h.version < BR_TLS10 \/ h.version > BR_TLS12
        THEN br_ssl_engine_fail(e, BR_ERR_UNSUPPORTED_VERSION)
        ELSE IF ~check_length(e.in, h.len)
        THEN br_ssl_engine_fail(e1, BR_ERR_BAD_LENGTH)
        ELSE IF h.len = 0 THEN process_record(e1, body)
        ELSE [e1 EXCEPT !.ixc = body_end(h)]

br_ssl_engine_recvrec_buf(e) ==
    IF e.err # BR_ERR_OK \/ e.shutdown_recv # 0 \/ e.in_plain \/ e.ixb >= e.ixc
    THEN NoWindow
    ELSE [ptr |-> e.ixb, len |-> e.ixc - e.ixb]

\* h and body are the header and the body contents that the bytes written by
\* the host turn out to hold; they are looked at when the header, or the body,
\* is complete.
br_ssl_engine_recvrec_ack(e, len, h, body) ==
    LET e1 == [e EXCEPT !.ixb = e.ixb + len]
    IN  IF e1.ixb < e1.ixc THEN e1
        ELSE IF e.ixc = RecHeaderLen THEN process_header(e1, h, body)
        ELSE process_record(e1, body)

br_ssl_engine_recvapp_buf(e) ==
    IF e.err # BR_ERR_OK \/ ~e.in_plain THEN NoWindow
    ELSE [ptr |-> e.ixa, len |-> e.ixb - e.ixa]

br_ssl_engine_recvapp_ack(e, len) ==
    LET e1 == [e EXCEPT !.ixa = e.ixa + len]
    IN  IF e1.ixa = e1.ixb THEN recycle_in(e1) ELSE e1

\* The state flags: CLOSED alone, or one flag per stream that has a window.
br_ssl_engine_current_state(e) ==
    IF e.err # BR_ERR_OK \/ engine_closed(e) THEN BR_SSL_CLOSED
    ELSE (IF br_ssl_engine_sendrec_buf(e) # NoWindow THEN BR_SSL_SENDREC ELSE 0)
       + (IF br_ssl_engine_recvapp_buf(e) # NoWindow THEN BR_SSL_RECVAPP ELSE 0)
       + (IF br_ssl_engine_recvrec_buf(e) # NoWindow THEN BR_SSL_RECVREC ELSE 0)
       + (IF br_ssl_engine_sendapp_buf(e) # NoWindow THEN BR_SSL_SENDAPP ELSE 0)

HasFlag(st, flag) == (st \div flag) % 2 = 1

(***************************************************************************)
(* The behavioural flags: a 32-bit word, written as the pair <<hi, lo>> of *)
(* its two 16-bit halves.  BR_OPT_* flags are bits of the low half.        *)
(***************************************************************************)
\* a | b, a & b or a & ~b over the n low bits of a and b.
RECURSIVE bitwise(_, _, _, _)
bitwise(op, a, b, n) ==
    IF n = 0 THEN 0
    ELSE LET x == a % 2 = 1
             y == b % 2 = 1
             z == IF op = "or" THEN x \/ y
                  ELSE IF op = "and" THEN x /\ y
                  ELSE x /\ ~y
         IN  (IF z THEN 1 ELSE 0)
                 + 2 * bitwise(op, a \div 2, b \div 2, n - 1)

br_ssl_engine_get_flags(e) == e.flags

br_ssl_engine_set_all_flags(e, flags) == [e EXCEPT !.flags = flags]

\* cc->flags |= flags
br_ssl_engine_add_flags(e, flags) ==
    [e EXCEPT !.flags = <<bitwise("or", e.flags[1], flags[1], 16),
                          bitwise("or", e.flags[2], flags[2], 16)>>]

\* Variant: the bits of the argument are kept and all others cleared.
br_ssl_engine_remove_flags_masks(e, flags) ==
    [e EXCEPT !.flags = <<bitwise("and", e.flags[1], flags[1], 16),
                          bitwise("and", e.flags[2], flags[2], 16)>>]

\* cc->flags &= ~flags
br_ssl_engine_remove_flags(e, flags) ==
    [e EXCEPT !.flags = <<bitwise("andnot", e.flags[1], flags[1], 16),
                          bitwise("andnot", e.flags[2], flags[2], 16)>>]

\* Variant: recvapp_buf marks the window it hands out as read, as
\* recvapp_ack does.
buf_calls_consumes(e) ==
    [e |-> IF br_ssl_engine_recvapp_buf(e) = NoWindow THEN e
           ELSE br_ssl_engine_recvapp_ack(e, br_ssl_engine_recvapp_buf(e).len),
     sendapp |-> br_ssl_engine_sendapp_buf(e),
     recvapp |-> br_ssl_engine_recvapp_buf(e),
     sendrec |-> br_ssl_engine_sendrec_buf(e),
     recvrec |-> br_ssl_engine_recvrec_buf(e)]

\* One round of the host's loop: the four accessors are called in turn; e is
\* the context afterwards.  The header declares each of them with a pointer
\* to a const context and says of all four "The engine state is unmodified by
\* this call": the only object a call writes is the length it returns.
buf_calls(e) ==
    [e |-> e,
     sendapp |-> br_ssl_engine_sendapp_buf(e),
     recvapp |-> br_ssl_engine_recvapp_buf(e),
     sendrec |-> br_ssl_engine_sendrec_buf(e),
     recvrec |-> br_ssl_engine_recvrec_buf(e)]

(***************************************************************************)
(* The handshake processor, seen from the engine.                          *)
(***************************************************************************)
hs_running(e) ==
    e.err = BR_ERR_OK /\ e.application_data = 0 /\ e.closing = "open"

\* Install the codecs derived from the new keys in the pending slots.
hs_install(e, kind) == [e EXCEPT !.pend_in = kind, !.pend_out = kind]

\* The pending outbound codec becomes the active one; it starts at zero.
switch_out(e) ==
    [e EXCEPT !.out = NewCodec(e.pend_out), !.pend_out = "none",
              !.hist_out = <<>>]

\* Emit a handshake record, or a ChangeCipherSpec record after which the pending
\* outbound codec becomes the active one.
hs_emit(e, type, len) ==
    LET e1 == seal([e EXCEPT !.oxb = RecHeaderLen + len], type)
    IN  IF e1.err # BR_ERR_OK \/ type # TYPE_CCS THEN e1
        ELSE switch_out(e1)

hs_done(e) == [e EXCEPT !.application_data = 1]

(***************************************************************************)
(* The engine's host: every step is one call into the engine.              *)
(***************************************************************************)

CacheUnused ==
    /\ cc = br_ssl_session_cache_lru_init(0, 0, "sha256")
    /\ store = [a \in {} |-> BlankEntry]
    /\ last = NoCall
    /\ live = [a \in {} |-> MkParams(0, CHOOSE d \in CallerData : TRUE)]
    /\ recency = <<>>
    /\ pc = "idle"
    /\ script = <<>>
    /\ twin = NoTwin
    /\ probe = NoProbe

cachevars == <<cc, store, last, live, recency, pc, script, twin, probe>>

InitEngine == eng = engine_reset /\ CacheUnused

SendappAck ==
    /\ \E len \in 1 .. br_ssl_engine_sendapp_buf(eng).len :
           eng' = br_ssl_engine_sendapp_ack(eng, len)
    /\ UNCHANGED cachevars

SendrecAck ==
    /\ \E len \in 1 .. br_ssl_engine_sendrec_buf(eng).len :
           eng' = br_ssl_engine_sendrec_ack(eng, len)
    /\ UNCHANGED cachevars

\* The header and body contents matter only to the call that completes them;
\* the other calls are given one arbitrary value.
HeadersAt(e, len) ==
    IF e.ixb + len = e.ixc /\ e.ixc = RecHeaderLen THEN Headers
    ELSE {CHOOSE h \in Headers : TRUE}

BodiesAt(e, len, h) ==
    IF e.ixb + len = e.ixc /\ (e.ixc > RecHeaderLen \/ h.len = 0) THEN Bodies
    ELSE {CHOOSE b \in Bodies : TRUE}

RecvrecAck ==
    /\ \E len \in 1 .. br_ssl_engine_recvrec_buf(eng).len :
           \E h \in HeadersAt(eng, len) :
               \E body \in BodiesAt(eng, len, h) :
                   eng' = br_ssl_engine_recvrec_ack(eng, len, h, body)
    /\ UNCHANGED cachevars

RecvappAck ==
    /\ \E len \in 1 .. br_ssl_engine_recvapp_buf(eng).len :
           eng' = br_ssl_engine_recvapp_ack(eng, len)
    /\ UNCHANGED cachevars

Flush ==
    /\ \E force \in {0, 1} : eng' = br_ssl_engine_flush(eng, force)
    /\ UNCHANGED cachevars

Close ==
    /\ eng' = br_ssl_engine_close(eng)
    /\ UNCHANGED cachevars

Reset ==
    /\ eng' = engine_reset
    /\ UNCHANGED cachevars

\* The I/O wrapper reports that writing a record to the transport failed.
IoFail ==
    /\ br_ssl_engine_sendrec_buf(eng) # NoWindow
    /\ eng' = br_ssl_engine_fail(eng, BR_ERR_IO)
    /\ UNCHANGED cachevars

HsInstall ==
    /\ hs_running(eng)
    /\ eng.pend_in = "none" /\ eng.pend_out = "none"
    /\ \E kind \in {"gcm"} : eng' = hs_install(eng, kind)
    /\ UNCHANGED cachevars

HsEmit ==
    /\ hs_running(eng)
    /\ ~eng.out_sealed
    /\ \E type \in {TYPE_HANDSHAKE, TYPE_CCS}, len \in 1 .. MaxBody :
           /\ type = TYPE_CCS => (len = 1 /\ eng.pend_out # "none")
           /\ eng' = hs_emit(eng, type, len)
    /\ UNCHANGED cachevars

HsDone ==
    /\ hs_running(eng)
    /\ eng' = hs_done(eng)
    /\ UNCHANGED cachevars

HsFail ==
    /\ hs_running(eng)
    /\ eng' = br_ssl_engine_fail(eng, BR_ERR_BAD_HANDSHAKE)
    /\ UNCHANGED cachevars

SpecEngine ==
    InitEngine /\ [][\/ SendappAck \/ SendrecAck \/ RecvrecAck \/ RecvappAck
                     \/ Flush \/ Close \/ Reset \/ IoFail
                     \/ HsInstall \/ HsEmit \/ HsDone \/ HsFail]_vars

(***************************************************************************)
(* Views of the state used to state the properties.                        *)
(***************************************************************************)
Capacity(c) == c.store_len \div LRU_ENTRY_LEN

\* The LRU list from the head, following next links.
RECURSIVE list_walk(_, _, _)
list_walk(st, x, fuel) ==
    IF x = ADDR_NULL \/ fuel = 0 THEN <<>>
    ELSE <<x>> \o list_walk(st, get_next(st, x), fuel - 1)

ListOf(c, st) == list_walk(st, c.head, Fuel(st))

\* The entries reachable from x through left and right links.
RECURSIVE reach(_, _, _)
reach(st, x, fuel) ==
    IF x = ADDR_NULL \/ fuel = 0 THEN {}
    ELSE {x} \cup reach(st, get_left(st, x), fuel - 1)
             \cup reach(st, get_right(st, x), fuel - 1)

TreeNodes(c, st) == reach(st, c.root, Fuel(st))

\* Number of nodes on the longest path from x down to a leaf.
RECURSIVE height(_, _, _)
height(st, x, fuel) ==
    IF x = ADDR_NULL \/ fuel = 0 THEN 0
    ELSE LET l == height(st, get_left(st, x), fuel - 1)
             r == height(st, get_right(st, x), fuel - 1)
         IN  1 + (IF l > r THEN l ELSE r)


\* What a load of session sid would do in the current state.
LoadOf(sid) == lru_load(cc, store, MkParams(sid, CHOOSE d \in CallerData : TRUE))

\* What a save of params would do in the current state.
SaveOf(params) ==
    lru_save(cc, store, [key |-> cc.index_key, hash |-> cc.hash], params)

(***************************************************************************)
(* A host that only changes the behavioural flags.                         *)
(***************************************************************************)
\* Flag words passed by the host: no bit, single bits (0, 1, 2, 15, 16 and 31),
\* both defined flags, and all 32 bits.
FlagWords ==
    {<<0, 0>>, <<0, 1>>, <<0, 2>>, <<0, 3>>, <<0, 4>>, <<0, 32768>>,
     <<1, 0>>, <<32768, 0>>, <<65535, 65535>>}

AddFlags ==
    /\ \E f \in FlagWords : eng' = br_ssl_engine_add_flags(eng, f)
    /\ UNCHANGED cachevars

RemoveFlags ==
    /\ \E f \in FlagWords : eng' = br_ssl_engine_remove_flags(eng, f)
    /\ UNCHANGED cachevars

SetAllFlags ==
    /\ \E f \in FlagWords : eng' = br_ssl_engine_set_all_flags(eng, f)
    /\ UNCHANGED cachevars

SpecFlags == InitEngine /\ [][AddFlags \/ RemoveFlags \/ SetAllFlags]_vars

(***************************************************************************)
(* The error codes an engine may be marked failed with: SSL-level codes    *)
(* (1..31), certificate decoding and validation codes (32..63), and fatal  *)
(* alerts received or sent, the alert value being added to a base value.   *)
(***************************************************************************)
\* Variant: the alert value is counted twice.
alert_error_doubled(base, alert) == base + 2 * alert

\* "the alert value is added to this constant"
alert_error(base, alert) == base + alert

\* A failure with an SSL-level code or a certificate validation code.
LocalFail ==
    /\ \E code \in 1 .. 63 : eng' = br_ssl_engine_fail(eng, code)
    /\ UNCHANGED cachevars

\* A fatal alert is received from the peer or sent to it; the alert value is
\* one byte.
FatalAlert ==
    /\ \E base \in {BR_ERR_RECV_FATAL_ALERT, BR_ERR_SEND_FATAL_ALERT} :
       \E alert \in 0 .. 255 :
           eng' = br_ssl_engine_fail(eng, alert_error(base, alert))
    /\ UNCHANGED cachevars

SpecBands == InitEngine /\ [][LocalFail \/ FatalAlert]_vars

(***************************************************************************)
(* Properties.                                                             *)
(***************************************************************************)

\* C1 -- Cache idempotence: every session that a save stored and whose entry has
\* not been the eviction victim since is found by a load of its session ID, which
\* returns 1 and hands back exactly the stored version, cipher suite and master
\* secret.
CacheIdempotence ==
    pc = "idle" =>
        \A x \in DOMAIN live :
            LET r == LoadOf(live[x].session_id)
            IN  /\ ~r.hang
                /\ r.ret = 1
                /\ DataOf(r.params) = DataOf(live[x])

\* C2 -- Eviction-order scenario on a three-entry slab, whatever the order of the
\* four masked IDs: after save A, save B, save C, load B, save D, the load of A
\* returns 0 and the loads of C, B and D return 1.  (The key and hash in use
\* make the masked IDs of all session IDs differ.)
ScenarioOutcome ==
    ((\A s, t \in SessionIds : s # t => mask_id(cc, s) # mask_id(cc, t))
         /\ last.op = "load" /\ Len(script) <= 3) =>
        IF Len(script) = 3 THEN last.path = "miss" ELSE last.path = "hit"

\* C3 -- LRU eviction: while every save has been of a session with a masked ID of
\* its own, the sessions beyond the first N in recency order (N the capacity) are
\* absent: a load of any of them returns 0.
LruEviction ==
    (pc = "idle" /\ recency # Void /\ Capacity(cc) >= 1) =>
        \A i \in DOMAIN recency :
            i > Capacity(cc) =>
                LET r == LoadOf(recency[i]) IN ~r.hang /\ r.ret = 0

\* C4 -- Capacity rule: a save that stores takes the fresh slot at store_ptr
\* whenever store_ptr + 100 <= store_len, and evicts the list tail only when no
\* such slot is left; the LRU list never holds more than store_len / 100 entries.
CapacityRule ==
    /\ Len(ListOf(cc, store)) <= Capacity(cc)
    /\ pc = "idle" =>
          \A p \in SaveInputs :
              LET r == SaveOf(p)
              IN  (~r.hang /\ r.path \in {"alloc", "evict"}) =>
                      IF cc.store_ptr + LRU_ENTRY_LEN <= cc.store_len
                      THEN /\ r.path = "alloc"
                           /\ r.x = cc.store_ptr
                           /\ r.c.store_ptr = cc.store_ptr + LRU_ENTRY_LEN
                           /\ DOMAIN r.s = (DOMAIN store) \cup {r.x}
                           /\ Len(ListOf(r.c, r.s)) = Len(ListOf(cc, store)) + 1
                      ELSE /\ r.path = "evict"
                           /\ r.x = cc.tail
                           /\ r.c.store_ptr = cc.store_ptr
                           /\ DOMAIN r.s = DOMAIN store
                           /\ Len(ListOf(r.c, r.s)) = Len(ListOf(cc, store))

\* Reached: a save has just evicted on a slab of two or more entries that is full.
CapacityRuleWitness ==
    /\ last.path = "evict"
    /\ Capacity(cc) > 1
    /\ Len(ListOf(cc, store)) = Capacity(cc)

\* C5 -- No duplicates: no two entries on the LRU list, and no two nodes reachable
\* from the tree root, carry the same masked session ID.
NoDuplicates ==
    /\ \A i, j \in DOMAIN ListOf(cc, store) :
           i # j => store[ListOf(cc, store)[i]].id # store[ListOf(cc, store)[j]].id
    /\ \A x, y \in TreeNodes(cc, store) : x # y => store[x].id # store[y].id

\* C6 -- Duplicate save is dropped: a save of a session ID whose masked ID is
\* already in the tree leaves the cache completely unchanged.
DuplicateSaveDropped ==
    (pc = "idle" /\ cc.init_done = 1) =>
        \A p \in SaveInputs :
            (\E x \in TreeNodes(cc, store) : store[x].id = mask_id(cc, p.session_id)) =>
                LET r == SaveOf(p)
                IN  ~r.hang /\ r.path = "duplicate" /\ r.c = cc /\ r.s = store

\* C7 -- Too-small slab: with store_len < 100 every save returns without changing
\* any cache field (no key drawn, init_done 0, head, tail and root null, store_ptr
\* 0, nothing stored) and every load returns 0.
TooSmallSlab ==
    cc.store_len < LRU_ENTRY_LEN =>
        /\ pc = "idle"
        /\ cc.init_done = 0 /\ cc.store_ptr = 0
        /\ cc.head = ADDR_NULL /\ cc.tail = ADDR_NULL /\ cc.root = ADDR_NULL
        /\ DOMAIN store = {}
        /\ \A p \in SaveInputs, rng \in Rngs :
               LET r == lru_save(cc, store, rng, p)
               IN  ~r.hang /\ r.c = cc /\ r.s = store
        /\ \A p \in LoadInputs :
               LET r == lru_load(cc, store, p) IN ~r.hang /\ r.ret = 0

\* Reached: a save has just been made on a 99-byte slab.
TooSmallSlabWitness ==
    /\ cc.store_len = LRU_ENTRY_LEN - 1
    /\ last.op = "save"
    /\ last.path = "too_small"

\* C8 -- Lookup miss: a load of a session ID whose masked ID is not stored in the
\* cache (any load before the first save included) returns 0 and leaves the
\* caller's version, cipher suite and master secret and the whole cache unchanged.
LookupMiss ==
    pc = "idle" =>
        \A p \in LoadInputs :
            (cc.init_done = 0 \/ mask_id(cc, p.session_id)
                                     \notin { store[x].id : x \in DOMAIN store }) =>
                LET r == lru_load(cc, store, p)
                IN  ~r.hang /\ r.ret = 0 /\ r.params = p /\ r.c = cc /\ r.s = store

\* C9 -- Recency order: a save that stores and a load that hits leave the entry
\* they touched at the list head with a null prev, and keep the order of all other
\* live entries (less the evicted tail); a hit on the head changes nothing.
RecencyOrder ==
    pc = "idle" =>
        /\ \A p \in SaveInputs :
               LET r == SaveOf(p)
                   old == ListOf(cc, store)
               IN  (~r.hang /\ r.path \in {"alloc", "evict"}) =>
                       /\ r.c.head = r.x
                       /\ r.s[r.x].prev = ADDR_NULL
                       /\ r.s[r.x].id = mask_id(r.c, p.session_id)
                       /\ ListOf(r.c, r.s) =
                              <<r.x>> \o (IF r.path = "evict"
                                          THEN SubSeq(old, 1, Len(old) - 1) ELSE old)
        /\ \A p \in LoadInputs :
               LET r == lru_load(cc, store, p)
                   old == ListOf(cc, store)
               IN  (~r.hang /\ r.ret = 1) =>
                       /\ r.c.head = r.x
                       /\ r.s[r.x].prev = ADDR_NULL
                       /\ r.s[r.x].id = mask_id(cc, p.session_id)
                       /\ ListOf(r.c, r.s) = <<r.x>> \o SeqWithout(old, r.x)
                       /\ r.x = cc.head => (r.c = cc /\ r.s = store)

\* Reached: a load has just hit on a full slab whose list holds three entries.
RecencyOrderWitness ==
    /\ last.path = "hit"
    /\ Len(ListOf(cc, store)) >= 3
    /\ no_room(cc)

\* C10 -- Ordered tree: for every node reachable from root, every node of its left
\* subtree has a strictly lower masked ID and every node of its right subtree a
\* strictly higher one.
OrderedTree ==
    \A x \in TreeNodes(cc, store) :
        /\ \A y \in reach(store, get_left(store, x), Fuel(store)) :
               store[y].id < store[x].id
        /\ \A y \in reach(store, get_right(store, x), Fuel(store)) :
               store[y].id > store[x].id

\* C11 -- Index key drawn once: the first save that passes the size test sets
\* index_key and hash to what the DRBG hands out; no later save and no load
\* modifies them, so a session ID keeps its masked ID; a load made before that
\* first save returns 0 whatever the key bytes are.
IndexKeyDrawnOnce ==
    pc = "idle" =>
        /\ \A p \in SaveInputs, rng \in Rngs :
               LET r == lru_save(cc, store, rng, p)
               IN  IF too_small(cc) THEN r.c = cc
                   ELSE IF cc.init_done = 0
                   THEN /\ r.c.index_key = rng.key
                        /\ r.c.hash = rng.hash
                        /\ r.c.init_done = 1
                   ELSE /\ r.c.index_key = cc.index_key
                        /\ r.c.hash = cc.hash
                        /\ r.c.init_done = 1
                        /\ \A sid \in SessionIds : mask_id(r.c, sid) = mask_id(cc, sid)
        /\ \A p \in LoadInputs :
               LET r == lru_load(cc, store, p)
               IN  /\ r.c.index_key = cc.index_key
                   /\ r.c.hash = cc.hash
                   /\ r.c.init_done = cc.init_done
                   /\ \A sid \in SessionIds : mask_id(r.c, sid) = mask_id(cc, sid)
                   /\ cc.init_done = 0 =>
                          \A k \in Keys, h \in Hashes :
                              lru_load([cc EXCEPT !.index_key = k, !.hash = h],
                                       store, p).ret = 0

\* Reached: the key is drawn, two entries are stored and a load has just hit.
IndexKeyDrawnOnceWitness ==
    /\ cc.init_done = 1
    /\ Cardinality(DOMAIN store) >= 2
    /\ last.op = "load"
    /\ last.path = "hit"

\* C12 -- Balanced tree: with n nodes in the tree the height h of the tree is at
\* most 2*log2(n+1), that is 2^h <= (n+1)^2.
BalancedTree ==
    LET n == Cardinality(TreeNodes(cc, store))
        h == height(store, cc.root, Fuel(store))
    IN  2 ^ h <= (n + 1) * (n + 1)

\* C14 -- store_ptr is a high-water mark: it is a multiple of 100 no larger than
\* store_len; a save that takes a fresh slot adds exactly 100 to it, every other
\* save and every load leaves it alone; once the slab is full no save takes a
\* fresh slot, and the slab is still full after an eviction.
StorePtrHighWater ==
    /\ cc.store_ptr % LRU_ENTRY_LEN = 0
    /\ cc.store_ptr <= cc.store_len
    /\ pc = "idle" =>
          /\ \A p \in SaveInputs :
                 LET r == SaveOf(p)
                 IN  ~r.hang =>
                         /\ r.c.store_ptr >= cc.store_ptr
                         /\ r.path = "alloc" =>
                                r.c.store_ptr = cc.store_ptr + LRU_ENTRY_LEN
                         /\ r.path # "alloc" => r.c.store_ptr = cc.store_ptr
                         /\ (~too_small(cc) /\ no_room(cc)) => r.path # "alloc"
                         /\ r.path = "evict" => no_room(r.c)
          /\ \A p \in LoadInputs :
                 lru_load(cc, store, p).c.store_ptr = cc.store_ptr

\* Reached: a save has just evicted on a slab whose store_ptr stopped at 200.
StorePtrHighWaterWitness ==
    /\ last.path = "evict"
    /\ cc.store_ptr = 2 * LRU_ENTRY_LEN
    /\ cc.store_len < 3 * LRU_ENTRY_LEN

(***************************************************************************)
(* Removal from the tree, seen at the point where lru_save is about to     *)
(* evict: the victim is the list tail.                                     *)
(***************************************************************************)
\* The next save that stores will evict, and the victim x = tail is a node of
\* the tree that a search for its masked ID finds.
EvictionDue(x) ==
    /\ pc = "idle"
    /\ cc.init_done = 1
    /\ ~too_small(cc) /\ no_room(cc)
    /\ x = cc.tail /\ x # ADDR_NULL
    /\ x \in TreeNodes(cc, store)
    /\ LET f == find_node(cc, store, store[x].id)
       IN  ~f.hang /\ f.node = x

Subtree(st, x) == reach(st, x, Fuel(st))

\* C24 -- Replacement rule on eviction: when remove_node removes a node x that
\* has at least one child, the node that takes x's place is the maximum of x's
\* left subtree if x has a left child, otherwise the minimum of x's right
\* subtree, and every node that was in the tree other than x is still
\* reachable from root afterwards.
ReplacementRule ==
    \A x \in DOMAIN store :
        (/\ EvictionDue(x)
         /\ get_left(store, x) # ADDR_NULL \/ get_right(store, x) # ADDR_NULL) =>
            LET f  == find_node(cc, store, store[x].id)
                m2 == remove_node([c |-> cc, s |-> store, hang |-> FALSE], x)
                L  == Subtree(store, get_left(store, x))
                R  == Subtree(store, get_right(store, x))
                y  == IF get_left(store, x) # ADDR_NULL
                      THEN CHOOSE n \in L : \A k \in L : store[k].id <= store[n].id
                      ELSE CHOOSE n \in R : \A k \in R : store[k].id >= store[n].id
                \* what the link that pointed at x holds afterwards (cc->root
                \* when x was the root)
                off == f.link % LRU_ENTRY_LEN
                now == IF f.link = ADDR_NULL THEN m2.c.root
                       ELSE IF off = TREE_LEFT_OFF
                            THEN get_left(m2.s, f.link - off)
                            ELSE get_right(m2.s, f.link - off)
            IN  /\ ~m2.hang
                /\ now = y
                /\ TreeNodes(m2.c, m2.s) = TreeNodes(cc, store) \ {x}

\* C25 -- Tree and list agree: the entries reachable from root through left and
\* right links are the entries reachable from head through next links.
TreeListAgree ==
    pc = "idle" => TreeNodes(cc, store) = Range(ListOf(cc, store))

\* C26 -- Removing a childless node: remove_node applied to a node that has no
\* child and is not the root only sets the parent's link to that node to null;
\* cc->root and every other link are left unchanged.
ChildlessRemoval ==
    \A x \in DOMAIN store :
        (/\ EvictionDue(x)
         /\ get_left(store, x) = ADDR_NULL /\ get_right(store, x) = ADDR_NULL
         /\ x # cc.root) =>
            LET f  == find_node(cc, store, store[x].id)
                m2 == remove_node([c |-> cc, s |-> store, hang |-> FALSE], x)
            IN  /\ ~m2.hang
                /\ m2.c = cc
                /\ m2.s = enc32_link(store, f.link, ADDR_NULL)

\* C27 -- Observable behaviour is independent of the index key: two caches of
\* the same capacity whose index keys differ (no collisions) and that were
\* given the same calls answer every load alike: both return, with the same
\* result and the same parameters.
KeyIndependence ==
    pc = "idle" =>
        \A p \in LoadInputs :
            LET r1 == lru_load(cc, store, p)
                r2 == lru_load(twin.c, twin.s, p)
            IN  /\ r1.hang = r2.hang
                /\ r1.ret = r2.ret
                /\ r1.params = r2.params

\* C28 -- Every lru_save and lru_load call terminates: the links reachable from
\* root form a finite acyclic tree, so no call is left walking it for ever.
\* (Every node reachable from root is pointed at by exactly one link of a
\* reachable node, and the root by none.)
CallsTerminate ==
    /\ pc # "hang"
    /\ LET T == TreeNodes(cc, store)
           parents(n) == { p \in T : get_left(store, p) = n }
           parents2(n) == { p \in T : get_right(store, p) = n }
       IN  \A n \in T :
               /\ Cardinality(parents(n)) + Cardinality(parents2(n))
                      = IF n = cc.root THEN 0 ELSE 1
               /\ get_left(store, n) = ADDR_NULL
                      \/ get_left(store, n) # get_right(store, n)

\* The LRU list is well formed and holds every allocated slot once.
GoodList(c, st) ==
    LET L == ListOf(c, st)
    IN  /\ c.head = ADDR_NULL <=> c.tail = ADDR_NULL
        /\ c.head # ADDR_NULL =>
               /\ get_prev(st, c.head) = ADDR_NULL
               /\ get_next(st, c.tail) = ADDR_NULL
               /\ L[Len(L)] = c.tail
               /\ \A i \in 1 .. (Len(L) - 1) : get_prev(st, L[i + 1]) = L[i]
        /\ \A i, j \in DOMAIN L : i # j => L[i] # L[j]
        /\ Len(L) * LRU_ENTRY_LEN = c.store_ptr
        /\ Range(L) = DOMAIN st

\* C29 -- LRU list well-formedness: head is null iff tail is null; otherwise
\* prev(head) and next(tail) are null, prev(next(x)) = x for every listed x
\* other than the tail, the list is acyclic and holds exactly store_ptr / 100
\* entries, every allocated slot once; every returning call keeps it so.
ListWellFormed ==
    pc = "idle" =>
        /\ GoodList(cc, store)
        /\ \A p \in SaveInputs, rng \in DrbgOutputs :
               LET r == lru_save(cc, store, rng, p)
               IN  ~r.hang => GoodList(r.c, r.s)
        /\ \A p \in LoadInputs :
               LET r == lru_load(cc, store, p)
               IN  ~r.hang => GoodList(r.c, r.s)

\* A hit on the tail of a full three-entry list has just moved it to the head.
ListWellFormedWitness ==
    /\ last.op = "load" /\ last.path = "hit"
    /\ Len(ListOf(cc, store)) = 3
    /\ cc.head = 0
    /\ get_next(store, cc.tail) = ADDR_NULL
    /\ cc.tail # 0

\* C30 -- Eviction never runs on an empty cache: whenever lru_save is to take
\* the eviction branch (store_ptr > store_len - 100, reached only with
\* store_len >= 100) the list is not empty: tail is an allocated entry.
EvictionHasVictim ==
    \A rng \in DrbgOutputs :
        LET c1 == init_key(cc, rng)
        IN  (pc = "idle" /\ ~too_small(cc) /\ no_room(c1)) =>
                /\ cc.store_len >= LRU_ENTRY_LEN
                /\ c1.tail # ADDR_NULL
                /\ c1.tail \in DOMAIN store

\* A one-entry cache has just evicted its only entry for a new session.
EvictionHasVictimWitness ==
    /\ last.op = "save" /\ last.path = "evict"
    /\ Capacity(cc) = 1
    /\ cc.head = cc.tail /\ cc.tail = 0

\* C31 -- lru_load never changes the index or the stored data: a load that
\* returns leaves root, every left and right link, every stored masked ID,
\* master secret, version and cipher suite, store_ptr and the index key as
\* they were; a miss changes nothing at all; on a hit only prev and next links,
\* head and tail may change; the caller's session_id is never modified.
LoadFrame ==
    pc = "idle" =>
        \A p \in LoadInputs :
            LET r == lru_load(cc, store, p)
            IN  ~r.hang =>
                    /\ r.c.root = cc.root
                    /\ r.c.store_ptr = cc.store_ptr
                    /\ r.c.store_len = cc.store_len
                    /\ r.c.index_key = cc.index_key
                    /\ r.c.hash = cc.hash
                    /\ r.c.init_done = cc.init_done
                    /\ DOMAIN r.s = DOMAIN store
                    /\ \A a \in DOMAIN store :
                           /\ r.s[a].left = store[a].left
                           /\ r.s[a].right = store[a].right
                           /\ r.s[a].id = store[a].id
                           /\ r.s[a].master_secret = store[a].master_secret
                           /\ r.s[a].version = store[a].version
                           /\ r.s[a].cipher_suite = store[a].cipher_suite
                    /\ r.params.session_id = p.session_id
                    /\ r.ret = 0 => (r.c = cc /\ r.s = store /\ r.params = p)

\* A load has just hit, and another load would hit an entry in the middle of
\* the list and move it to the head.
LoadFrameWitness ==
    /\ pc = "idle"
    /\ last.op = "load" /\ last.path = "hit"
    /\ \E p \in LoadInputs :
           LET r == lru_load(cc, store, p)
           IN  /\ ~r.hang /\ r.ret = 1
               /\ r.x # cc.head /\ r.x # cc.tail
               /\ r.c.head = r.x
               /\ r.s # store

\* C32 -- Single-entry cache: when the slab holds exactly one entry
\* (100 <= store_len < 200) and that entry is in use, every lru_save of a
\* session with a new masked ID evicts the sole entry and leaves
\* head = tail = root = offset 0 holding the new session with null prev, next,
\* left and right; a load of the new ID then hits and a load of the previous ID
\* misses.  (The slab lengths 100 and 199 are both tried in each such state.)
SingleEntry ==
    (pc = "idle" /\ cc.init_done = 1 /\ Capacity(cc) = 1
        /\ cc.store_ptr = LRU_ENTRY_LEN) =>
        \A len \in {LRU_ENTRY_LEN, 2 * LRU_ENTRY_LEN - 1} :
        \A params \in SaveInputs :
            LET c   == [cc EXCEPT !.store_len = len]
                id  == mask_id(c, params.session_id)
                old == store[0].id
                r   == lru_save(c, store, [key |-> c.index_key, hash |-> c.hash],
                                params)
            IN  id # old =>
                    /\ ~r.hang /\ r.path = "evict" /\ r.x = 0
                    /\ r.c.head = 0 /\ r.c.tail = 0 /\ r.c.root = 0
                    /\ r.c.store_ptr = LRU_ENTRY_LEN
                    /\ DOMAIN r.s = {0}
                    /\ r.s[0] = [id |-> id,
                                 master_secret |-> params.master_secret,
                                 version |-> params.version,
                                 cipher_suite |-> params.cipher_suite,
                                 prev |-> ADDR_NULL, next |-> ADDR_NULL,
                                 left |-> ADDR_NULL, right |-> ADDR_NULL]
                    /\ \A q \in LoadInputs :
                           LET l == lru_load(r.c, r.s, q)
                           IN  /\ ~l.hang
                               /\ q.session_id = params.session_id =>
                                      (l.ret = 1 /\ DataOf(l.params) = DataOf(params))
                               /\ mask_id(c, q.session_id) = old => l.ret = 0

\* A one-entry cache has evicted its entry for a new session, and a session
\* with yet another masked ID can be saved next.
SingleEntryWitness ==
    /\ pc = "idle"
    /\ last.op = "save" /\ last.path = "evict"
    /\ Capacity(cc) = 1 /\ cc.store_ptr = LRU_ENTRY_LEN
    /\ \E params \in SaveInputs :
           mask_id(cc, params.session_id) # store[0].id

\* C33 -- Link validity: head, tail, root and the prev, next, left and right
\* fields of every allocated entry are each either the null address or a
\* multiple of 100 strictly below store_ptr; no entry links to itself; and
\* every link write of the next call (set_prev and set_next of the move to the
\* head in lru_load; the eviction, set_link and the list insertion in lru_save)
\* targets an address inside an allocated entry, the null address being used
\* only by set_link to name the root.
LinkValidity ==
    LET Valid(a) ==
            a = ADDR_NULL
                \/ (a % LRU_ENTRY_LEN = 0 /\ 0 <= a /\ a < cc.store_ptr)
        Inside(st, a) == a # ADDR_NULL /\ a \in DOMAIN st
        LinkInside(st, al) ==
            al = ADDR_NULL
                \/ (/\ (al - (al % LRU_ENTRY_LEN)) \in DOMAIN st
                    /\ al % LRU_ENTRY_LEN \in {TREE_LEFT_OFF, TREE_RIGHT_OFF})
    IN  /\ Valid(cc.head) /\ Valid(cc.tail) /\ Valid(cc.root)
        /\ \A a \in DOMAIN store :
               /\ Valid(store[a].prev) /\ Valid(store[a].next)
               /\ Valid(store[a].left) /\ Valid(store[a].right)
               /\ store[a].prev # a /\ store[a].next # a
               /\ store[a].left # a /\ store[a].right # a
        /\ pc = "idle" =>
               /\ \A p \in LoadInputs :
                      LET r == lru_load(cc, store, p)
                      IN  (~r.hang /\ r.ret = 1 /\ r.x # cc.head) =>
                              /\ Inside(store, get_prev(store, r.x))
                              /\ Inside(store, cc.head)
               /\ \A rng \in DrbgOutputs : \A params \in SaveInputs :
                      LET r  == lru_save(cc, store, rng, params)
                          c1 == init_key(cc, rng)
                          m0 == [c |-> c1, s |-> store, hang |-> FALSE]
                          x  == c1.tail
                          fx == find_node(c1, store, store[x].id)
                          rx == find_replacement_node(store, x)
                          m1 == IF no_room(c1) THEN evict_tail(m0)
                                ELSE alloc_slot(m0)
                          f  == find_node(m1.c, m1.s,
                                          mask_id(c1, params.session_id))
                      IN  /\ r.path = "evict" =>
                                 /\ Inside(store, x)
                                 /\ LinkInside(store, fx.link)
                                 /\ LinkInside(store, rx.link)
                          /\ r.path \in {"evict", "alloc"} =>
                                 /\ Inside(m1.s, r.x)
                                 /\ LinkInside(m1.s, f.link)
                                 /\ m1.c.head = ADDR_NULL
                                        \/ Inside(m1.s, m1.c.head)

(***************************************************************************)
(* Properties of the engine.                                               *)
(***************************************************************************)
\* C15 -- Sticky error: once err is non-zero it keeps that value until a reset;
\* until then the four _buf calls return (NULL, 0), current_state reports only
\* CLOSED, and no later fault replaces the latched code.
StickyError ==
    [][br_ssl_engine_last_error(eng) # BR_ERR_OK =>
         /\ br_ssl_engine_sendapp_buf(eng) = NoWindow
         /\ br_ssl_engine_recvapp_buf(eng) = NoWindow
         /\ br_ssl_engine_sendrec_buf(eng) = NoWindow
         /\ br_ssl_engine_recvrec_buf(eng) = NoWindow
         /\ br_ssl_engine_current_state(eng) = BR_SSL_CLOSED
         /\ \A code \in
                {BR_ERR_BAD_VERSION, BR_ERR_BAD_LENGTH, BR_ERR_TOO_LARGE,
                 BR_ERR_BAD_MAC, BR_ERR_UNKNOWN_TYPE, BR_ERR_UNEXPECTED,
                 BR_ERR_BAD_CCS, BR_ERR_BAD_ALERT, BR_ERR_BAD_HANDSHAKE,
                 BR_ERR_IO, BR_ERR_RECV_FATAL_ALERT + 10} :
                br_ssl_engine_last_error(br_ssl_engine_fail(eng, code))
                    = br_ssl_engine_last_error(eng)
         /\ \/ eng' = engine_reset
            \/ br_ssl_engine_last_error(eng')
                   = br_ssl_engine_last_error(eng)]_vars

\* A version mismatch was latched while an outbound record was half sent.
StickyErrorWitness ==
    /\ br_ssl_engine_last_error(eng) = BR_ERR_BAD_VERSION
    /\ eng.out_sealed
    /\ eng.oxa > 0

\* C16 -- State-flag exclusion: current_state never reports SENDREC with
\* SENDAPP, never RECVREC with RECVAPP, and CLOSED only alone.
FlagExclusion ==
    LET st == br_ssl_engine_current_state(eng)
    IN  /\ st \in 0 .. 31
        /\ ~(HasFlag(st, BR_SSL_SENDREC) /\ HasFlag(st, BR_SSL_SENDAPP))
        /\ ~(HasFlag(st, BR_SSL_RECVREC) /\ HasFlag(st, BR_SSL_RECVAPP))
        /\ HasFlag(st, BR_SSL_CLOSED) => st = BR_SSL_CLOSED
        /\ st # BR_SSL_CLOSED =>
               /\ HasFlag(st, BR_SSL_SENDREC)
                      <=> br_ssl_engine_sendrec_buf(eng) # NoWindow
               /\ HasFlag(st, BR_SSL_SENDAPP)
                      <=> br_ssl_engine_sendapp_buf(eng) # NoWindow
               /\ HasFlag(st, BR_SSL_RECVREC)
                      <=> br_ssl_engine_recvrec_buf(eng) # NoWindow
               /\ HasFlag(st, BR_SSL_RECVAPP)
                      <=> br_ssl_engine_recvapp_buf(eng) # NoWindow

\* A record is being sent while received plaintext waits, after the handshake:
\* both exclusions are at work.
FlagExclusionWitness ==
    /\ br_ssl_engine_current_state(eng) = BR_SSL_SENDREC + BR_SSL_RECVAPP
    /\ eng.application_data = 1
    /\ eng.closing = "open"
    /\ eng.oxb < eng.oxc

\* C17 -- Cursor monotonicity: the cursors of each buffer are ordered and within
\* the buffer, and every _ack(n) with 0 < n <= the length of the matching
\* window only advances cursors; a buffer's cursors go back to the start only
\* with the call that consumes the last byte of the record in it.
CursorMonotonic ==
    LET CursorsOrdered(e) ==
            /\ 0 <= e.ixa /\ e.ixa <= e.ixb /\ e.ixb <= e.ixc /\ e.ixc <= IBufLen
            /\ 0 <= e.oxa /\ e.oxa <= e.oxb /\ e.oxb <= e.oxc /\ e.oxc <= OBufLen
        InAdvanced(e, e2) ==
            e.ixa <= e2.ixa /\ e.ixb <= e2.ixb /\ e.ixc <= e2.ixc
        OutAdvanced(e, e2) ==
            e.oxa <= e2.oxa /\ e.oxb <= e2.oxb /\ e.oxc <= e2.oxc
        \* the input, the output buffer was handed back for the next record
        InRecycled(e2) == e2.ixa = 0 /\ e2.ixb = 0 /\ e2.ixc = RecHeaderLen
        OutRecycled(e2) == e2.oxa = 0 /\ e2.oxb >= RecHeaderLen
    IN
    /\ CursorsOrdered(eng)
    /\ \A n \in 1 .. br_ssl_engine_sendapp_buf(eng).len :
           LET e2 == br_ssl_engine_sendapp_ack(eng, n)
           IN  CursorsOrdered(e2) /\ InAdvanced(eng, e2) /\ OutAdvanced(eng, e2)
    /\ \A n \in 1 .. br_ssl_engine_sendrec_buf(eng).len :
           LET e2 == br_ssl_engine_sendrec_ack(eng, n)
           IN  /\ CursorsOrdered(e2)
               /\ InAdvanced(eng, e2)
               /\ IF n < br_ssl_engine_sendrec_buf(eng).len
                  THEN OutAdvanced(eng, e2)
                  ELSE OutRecycled(e2)
    /\ \A n \in 1 .. br_ssl_engine_recvapp_buf(eng).len :
           LET e2 == br_ssl_engine_recvapp_ack(eng, n)
           IN  /\ CursorsOrdered(e2)
               /\ OutAdvanced(eng, e2)
               /\ IF n < br_ssl_engine_recvapp_buf(eng).len
                  THEN InAdvanced(eng, e2)
                  ELSE InRecycled(e2)
    /\ \A n \in 1 .. br_ssl_engine_recvrec_buf(eng).len :
           \A h \in HeadersAt(eng, n) : \A body \in BodiesAt(eng, n, h) :
               LET e2 == br_ssl_engine_recvrec_ack(eng, n, h, body)
               IN  /\ CursorsOrdered(e2)
                   /\ OutAdvanced(eng, e2)
                   /\ IF n < br_ssl_engine_recvrec_buf(eng).len
                      THEN InAdvanced(eng, e2)
                      ELSE InAdvanced(eng, e2) \/ InRecycled(e2)

\* Received plaintext is half read while an outbound record is half sent.
CursorMonotonicWitness ==
    /\ eng.in_plain
    /\ eng.ixa > RecHeaderLen /\ eng.ixa < eng.ixb
    /\ eng.out_sealed
    /\ eng.oxa > 0 /\ eng.oxa < eng.oxb

\* C18 -- Sequence monotonicity: from the moment a codec becomes active, the
\* i-th record it processes carries sequence number i (0, 1, 2, ...), and a
\* record whose processing would overflow the counter fails with TOO_LARGE and
\* the counter does not wrap.
SequenceMonotonic ==
    LET CountsFromZero(hist) == \A i \in DOMAIN hist : hist[i] = i - 1
    IN
    /\ CountsFromZero(eng.hist_in) /\ CountsFromZero(eng.hist_out)
    /\ IF eng.in.kind = "clear" THEN eng.hist_in = <<>>
       ELSE eng.in.seq = Len(eng.hist_in) /\ eng.in.seq < SeqLimit
    /\ IF eng.out.kind = "clear" THEN eng.hist_out = <<>>
       ELSE eng.out.seq = Len(eng.hist_out) /\ eng.out.seq < SeqLimit
    /\ (eng.err = BR_ERR_OK /\ eng.out.kind # "clear"
            /\ eng.out.seq + 1 >= SeqLimit) =>
           \A type \in RecTypes :
               LET e2 == seal(eng, type)
               IN  /\ e2.err = BR_ERR_TOO_LARGE
                   /\ e2.out = eng.out
                   /\ e2.hist_out = eng.hist_out
    /\ (eng.err = BR_ERR_OK /\ eng.in.kind # "clear"
            /\ eng.in.seq + 1 >= SeqLimit) =>
           \A body \in Bodies :
               LET e2 == process_record(eng, body)
               IN  /\ e2.err = BR_ERR_TOO_LARGE
                   /\ e2.in = eng.in
                   /\ e2.hist_in = eng.hist_in

\* The outbound codec used up its counter and the next record failed, while the
\* inbound codec had processed two records.
SequenceMonotonicWitness ==
    /\ eng.err = BR_ERR_TOO_LARGE
    /\ eng.out.kind # "clear"
    /\ Len(eng.hist_out) = SeqLimit - 1
    /\ Len(eng.hist_in) >= 2

\* C20 -- Closure protocol: after close() on an open, ready engine a
\* close_notify alert record becomes available on sendrec (after the record
\* that was pending, if any); once it is drained sendapp is refused; once the
\* peer's close_notify has been received too, in either order, the state is
\* exactly CLOSED with err = 0.  (An engine whose outbound counter is used up
\* cannot emit any record; that case is the one of C18.)
ClosureProtocol ==
    LET \* the handshake is over, no fault is latched, no closure has begun
        EngineReady(e) ==
            e.err = BR_ERR_OK /\ e.application_data = 1 /\ e.closing = "open"
        \* the outbound codec can still number one more record
        CanSeal(e) == codec_step(e.out).ok
        \* the last byte of a close_notify alert from the peer is about to
        \* arrive, and the inbound codec accepts the record
        PeerCloseArrives(e, body) ==
            /\ e.err = BR_ERR_OK
            /\ br_ssl_engine_recvrec_buf(e) # NoWindow
            /\ e.ixc = RecHeaderLen + 2
            /\ e.record_type_in = TYPE_ALERT
            /\ body.b1 = 0
            /\ codec_step(e.in).ok
            /\ e.in.kind = "clear" \/ body.mac_ok
    IN
    /\ (EngineReady(eng) /\ CanSeal(eng)) =>
           LET e2 == br_ssl_engine_close(eng)
           IN  /\ e2.err = BR_ERR_OK
               /\ br_ssl_engine_sendrec_buf(e2) # NoWindow
               /\ br_ssl_engine_sendapp_buf(e2) = NoWindow
               /\ e2.closing \in {"scheduled", "sending"}
               /\ (~eng.out_sealed /\ eng.oxb = RecHeaderLen) =>
                      /\ e2.closing = "sending"
                      /\ e2.record_type_out = TYPE_ALERT
                      /\ br_ssl_engine_sendrec_buf(e2)
                             = [ptr |-> 0, len |-> RecHeaderLen + 2]
    /\ (eng.err = BR_ERR_OK /\ eng.closing = "scheduled") =>
           /\ br_ssl_engine_sendrec_buf(eng) # NoWindow
           /\ CanSeal(eng) =>
                  LET e2 == br_ssl_engine_sendrec_ack(
                                eng, br_ssl_engine_sendrec_buf(eng).len)
                  IN  /\ e2.closing = "sending"
                      /\ e2.record_type_out = TYPE_ALERT
                      /\ br_ssl_engine_sendrec_buf(e2)
                             = [ptr |-> 0, len |-> RecHeaderLen + 2]
    /\ (eng.err = BR_ERR_OK /\ eng.closing = "sending") =>
           /\ br_ssl_engine_sendrec_buf(eng) # NoWindow
           /\ eng.record_type_out = TYPE_ALERT
           /\ LET e2 == br_ssl_engine_sendrec_ack(
                            eng, br_ssl_engine_sendrec_buf(eng).len)
              IN  /\ e2.closing = "sent"
                  /\ e2.err = BR_ERR_OK
                  /\ br_ssl_engine_sendapp_buf(e2) = NoWindow
                  /\ eng.shutdown_recv # 0 =>
                         br_ssl_engine_current_state(e2) = BR_SSL_CLOSED
    /\ eng.closing # "open" => br_ssl_engine_sendapp_buf(eng) = NoWindow
    /\ \A body \in Bodies :
           PeerCloseArrives(eng, body) =>
               LET e2 == br_ssl_engine_recvrec_ack(
                             eng, br_ssl_engine_recvrec_buf(eng).len,
                             CHOOSE h \in Headers : TRUE, body)
               IN  /\ e2.shutdown_recv # 0
                   /\ eng.closing = "sent" =>
                          /\ e2.err = BR_ERR_OK
                          /\ br_ssl_engine_current_state(e2) = BR_SSL_CLOSED
    /\ (eng.err = BR_ERR_OK /\ engine_closed(eng)) =>
           br_ssl_engine_current_state(eng) = BR_SSL_CLOSED

\* Both close_notify alerts went through after application data was exchanged.
ClosureProtocolWitness ==
    /\ engine_closed(eng)
    /\ eng.err = BR_ERR_OK
    /\ eng.application_data = 1
    /\ br_ssl_engine_current_state(eng) = BR_SSL_CLOSED
    /\ eng.out.kind # "clear"

\* C22 -- Cipher switch at ChangeCipherSpec: an incoming type-20 record whose
\* body is not exactly the single byte 1 fails the engine with BAD_CCS and the
\* inbound codec is not replaced; a valid one makes the pending inbound codec
\* the active one with sequence number 0 and leaves the outbound side alone;
\* sending a CCS record makes the pending outbound codec the active one with
\* sequence number 0 and leaves the inbound side alone.
CipherSwitch ==
    LET \* the last byte of a ChangeCipherSpec record is about to arrive and
        \* the inbound codec accepts the record
        CcsArrives(e, body) ==
            /\ e.err = BR_ERR_OK
            /\ br_ssl_engine_recvrec_buf(e) # NoWindow
            /\ e.ixc > RecHeaderLen
            /\ e.record_type_in = TYPE_CCS
            /\ codec_step(e.in).ok
            /\ e.in.kind = "clear" \/ body.mac_ok
    IN
    /\ \A body \in Bodies :
           CcsArrives(eng, body) =>
               LET e2 == br_ssl_engine_recvrec_ack(
                             eng, br_ssl_engine_recvrec_buf(eng).len,
                             CHOOSE h \in Headers : TRUE, body)
                   same_codec == /\ e2.in = codec_step(eng.in).codec
                                 /\ e2.pend_in = eng.pend_in
               IN  /\ e2.out = eng.out
                   /\ e2.pend_out = eng.pend_out
                   /\ e2.hist_out = eng.hist_out
                   /\ IF eng.ixc # RecHeaderLen + 1 \/ body.b0 # 1
                      THEN e2.err = BR_ERR_BAD_CCS /\ same_codec
                      ELSE eng.pend_in # "none" =>
                               /\ e2.err = BR_ERR_OK
                               /\ e2.in = [kind |-> eng.pend_in, seq |-> 0]
                               /\ e2.hist_in = <<>>
                               /\ e2.pend_in = "none"
    /\ \A h \in Headers :
           (/\ eng.err = BR_ERR_OK
            /\ br_ssl_engine_recvrec_buf(eng) # NoWindow
            /\ eng.ixc = RecHeaderLen
            /\ eng.version_in \in {0, h.version}
            /\ h.version \in Versions
            /\ h.type = TYPE_CCS /\ h.len = 0
            /\ codec_step(eng.in).ok
            /\ eng.in.kind = "clear") =>
               LET e2 == br_ssl_engine_recvrec_ack(
                             eng, br_ssl_engine_recvrec_buf(eng).len, h,
                             CHOOSE b \in Bodies : TRUE)
               IN  e2.err = BR_ERR_BAD_CCS /\ e2.in = eng.in
                       /\ e2.pend_in = eng.pend_in
    /\ (hs_running(eng) /\ ~eng.out_sealed /\ eng.pend_out # "none"
            /\ codec_step(eng.out).ok) =>
           LET e2 == hs_emit(eng, TYPE_CCS, 1)
           IN  /\ e2.err = BR_ERR_OK
               /\ e2.record_type_out = TYPE_CCS
               /\ br_ssl_engine_sendrec_buf(e2)
                      = [ptr |-> 0, len |-> RecHeaderLen + 1]
               /\ e2.out = [kind |-> eng.pend_out, seq |-> 0]
               /\ e2.hist_out = <<>>
               /\ e2.pend_out = "none"
               /\ e2.in = eng.in
               /\ e2.pend_in = eng.pend_in
               /\ e2.hist_in = eng.hist_in

\* The inbound side has switched to a newly installed codec while the outbound
\* side, two records into the previous one, has not switched yet.
CipherSwitchWitness ==
    /\ eng.err = BR_ERR_OK
    /\ eng.in.kind # "clear" /\ eng.in.seq = 0
    /\ eng.pend_in = "none"
    /\ eng.out.kind # "clear" /\ eng.out.seq >= 2
    /\ eng.pend_out # "none"

\* A window is (NULL, 0), or a non-empty range of the buffer of length buflen.
WindowOK(w, buflen) ==
    /\ w.ptr = NoWindow.ptr <=> w.len = 0
    /\ w.len >= 0
    /\ w.len > 0 => (0 <= w.ptr /\ w.ptr + w.len <= buflen)

NullUnambiguous ==
    LET null == <<65535, 65535>>
        fields == {0, LIST_PREV_OFF, LIST_NEXT_OFF, TREE_LEFT_OFF, TREE_RIGHT_OFF}
        Entry(x) ==
            /\ x # null
            /\ (x[1] * 36 + x[2]) % 100 = 0
            /\ u32_le(x, u32_add(x, LRU_ENTRY_LEN))
            /\ u32_le(u32_add(x, LRU_ENTRY_LEN), probe.store_len)
            /\ \A f \in fields :
                   /\ u32_add(x, f) # null
                   /\ u32_le(x, u32_add(x, f))
    IN  /\ probe.x # null => Entry(probe.x)
        /\ (u32_le(<<0, LRU_ENTRY_LEN>>, probe.store_len) /\ ~no_room32(probe)) =>
               Entry(probe.store_ptr)
        /\ u32_le(probe.store_ptr, probe.store_len)
               \/ probe.store_ptr = <<0, 0>>

\* The last entry of a slab of 4294967295 bytes, at offset 4294967100, was
\* handed out.
NullUnambiguousWitness ==
    /\ probe.store_len = <<65535, 65535>>
    /\ probe.x = <<65535, 65340>>
    /\ probe.store_ptr = <<65535, 65440>>

\* C35 -- Error bands are disjoint: for every alert code c in 0..255,
\* BR_ERR_RECV_FATAL_ALERT + c lies in 256..511 and BR_ERR_SEND_FATAL_ALERT + c
\* lies in 512..767; the two ranges are disjoint from each other, from the
\* local codes 1..31 and from the validation codes 32..63, so that a latched
\* error value has exactly one band and one code.
ErrorBands ==
    LET recv(c) == alert_error(BR_ERR_RECV_FATAL_ALERT, c)
        send(c) == alert_error(BR_ERR_SEND_FATAL_ALERT, c)
        origins ==
            { <<"local", c>> : c \in 1 .. 31 } \cup
            { <<"validation", c>> : c \in 32 .. 63 } \cup
            { <<"recv", c>> : c \in 0 .. 255 } \cup
            { <<"send", c>> : c \in 0 .. 255 }
        value(o) == IF o[1] = "recv" THEN recv(o[2])
                    ELSE IF o[1] = "send" THEN send(o[2])
                    ELSE o[2]
    IN  /\ \A c \in 0 .. 255 :
               /\ recv(c) \in 256 .. 511
               /\ send(c) \in 512 .. 767
        /\ LET R == { recv(c) : c \in 0 .. 255 }
               S == { send(c) : c \in 0 .. 255 }
           IN  /\ Cardinality(R) = 256 /\ Cardinality(S) = 256
               /\ R \cap S = {}
               /\ (R \cup S) \cap (1 .. 63) = {}
               /\ BR_ERR_OK \notin R \cup S
        /\ br_ssl_engine_last_error(eng) # BR_ERR_OK =>
               Cardinality({ o \in origins :
                                 value(o) = br_ssl_engine_last_error(eng) }) = 1

\* The engine is failed with the last code of the sent-alert band.
ErrorBandsWitness ==
    br_ssl_engine_last_error(eng) = BR_ERR_SEND_FATAL_ALERT + 255

\* C36 -- Behavioural flags: br_ssl_engine_add_flags(f) sets exactly the bits
\* of f and br_ssl_engine_remove_flags(f) clears exactly the bits of f, each
\* leaving every other bit of the 32-bit flags word and every other field of
\* the context unchanged; br_ssl_engine_set_all_flags(v) followed by
\* br_ssl_engine_get_flags returns v; add_flags and remove_flags are each
\* idempotent.
FlagsFrame ==
    LET Bit(w, i) == (w[IF i < 16 THEN 2 ELSE 1] \div (2 ^ (i % 16))) % 2 = 1
        old == br_ssl_engine_get_flags(eng)
    IN  \A f \in FlagWords :
            LET a == br_ssl_engine_add_flags(eng, f)
                r == br_ssl_engine_remove_flags(eng, f)
                s == br_ssl_engine_set_all_flags(eng, f)
            IN  /\ \A i \in 0 .. 31 :
                       /\ Bit(br_ssl_engine_get_flags(a), i)
                              <=> (Bit(old, i) \/ Bit(f, i))
                       /\ Bit(br_ssl_engine_get_flags(r), i)
                              <=> (Bit(old, i) /\ ~Bit(f, i))
                /\ br_ssl_engine_get_flags(s) = f
                /\ br_ssl_engine_add_flags(a, f) = a
                /\ br_ssl_engine_remove_flags(r, f) = r
                /\ [a EXCEPT !.flags = old] = eng
                /\ [r EXCEPT !.flags = old] = eng
                /\ [s EXCEPT !.flags = old] = eng

\* Bits 1 and 31 are set and bits 0 and 16 are clear, after bits were both
\* added and removed.
FlagsFrameWitness ==
    br_ssl_engine_get_flags(eng) = <<32768 + 32766, 65534>>


\* C38 -- find_node link contract: find_node returns the node whose masked ID
\* equals the searched ID, or the null address if none is reachable from root;
\* the link it reports is the address of the last link followed, which is the
\* null address exactly when the found node is the root or the tree is empty,
\* and on a miss it is the null link at which inserting the searched ID keeps
\* the tree ordered.
FindNodeContract ==
    pc = "idle" =>
        \A id \in 0 .. (IdSpace - 1) :
            LET f == find_node(cc, store, id)
                Ordered(c, st) ==
                    \A x \in TreeNodes(c, st) :
                        /\ \A y \in reach(st, get_left(st, x), Fuel(st)) :
                               st[y].id < st[x].id
                        /\ \A y \in reach(st, get_right(st, x), Fuel(st)) :
                               st[y].id > st[x].id
                LinkValue(alx) ==
                    IF alx = ADDR_NULL THEN cc.root
                    ELSE IF alx % LRU_ENTRY_LEN = TREE_LEFT_OFF
                    THEN get_left(store, alx - TREE_LEFT_OFF)
                    ELSE get_right(store, alx - TREE_RIGHT_OFF)
                n == cc.store_ptr
                grown == [a \in DOMAIN store \cup {n} |->
                             IF a = n THEN [BlankEntry EXCEPT !.id = id]
                             ELSE store[a]]
                after == set_link([c |-> cc, s |-> grown], f.link, n)
            IN  /\ ~f.hang
                /\ f.node # ADDR_NULL =>
                       /\ f.node \in TreeNodes(cc, store)
                       /\ store[f.node].id = id
                /\ f.node = ADDR_NULL <=>
                       \A x \in TreeNodes(cc, store) : store[x].id # id
                /\ f.link # ADDR_NULL =>
                       /\ (f.link - (f.link % LRU_ENTRY_LEN)) \in TreeNodes(cc, store)
                       /\ f.link % LRU_ENTRY_LEN \in {TREE_LEFT_OFF, TREE_RIGHT_OFF}
                /\ LinkValue(f.link) = f.node
                /\ f.link = ADDR_NULL <=> f.node = cc.root
                /\ (f.node = ADDR_NULL /\ Ordered(cc, store)) =>
                       /\ Ordered(after.c, after.s)
                       /\ n \in TreeNodes(after.c, after.s)

====
